---- MODULE Spec2Model ----
(***************************************************************************)
(* A model of the rust-evo simulator core: the energy budgeter of a cell,  *)
(* the bond energy slots, and the ordered tick pipeline of the world with  *)
(* its structural updates (budding, bond breaking, dead-cell removal).     *)
(*                                                                         *)
(* Numbers.  The program computes in f64.  The model keeps energies and    *)
(* areas as integers and the two kinds of fraction as fixed-point numbers: *)
(* a budgeted fraction f stands for f / FracOne, a health h for            *)
(* h / HealthOne.  Products and quotients are rounded to the nearest       *)
(* representable value, as IEEE-754 does.                                  *)
(***************************************************************************)
EXTENDS Integers, Sequences, FiniteSets, TLC

(***************************************************************************)
(* Bounds of the model.                                                    *)
(***************************************************************************)
FracOne == 64          \* fixed-point representation of budgeted_fraction 1.0
MaxStartEnergy == 4    \* start energies tried on the budgeter
MaxDelta == 3          \* |energy_delta| of a costed request tried on the budgeter
MaxCosted == 3         \* length of the costed request list tried on the budgeter
HealthOne == 2         \* fixed-point representation of health 1.0
MaxInitCells == 3      \* cells given to the world builder
MaxTicks == 2          \* ticks run
MaxLayerCalls == 3     \* calls made on a layer on its own
MaxRuns == 2           \* runs of a neural net
Precision == 4         \* significant bits of a float
FloatOne == 64         \* units of a float that make 1.0

(***************************************************************************)
(* Arithmetic helpers.                                                     *)
(***************************************************************************)
Min(a, b) == IF a <= b THEN a ELSE b

Max(a, b) == IF a >= b THEN a ELSE b

Abs(a) == IF a >= 0 THEN a ELSE -a

\* a / b rounded to the nearest integer (b > 0), symmetric around zero.
RoundDiv(a, b) == IF a >= 0 THEN (2 * a + b) \div (2 * b) ELSE -((2 * (-a) + b) \div (2 * b))

(***************************************************************************)
(* f64 arithmetic, for the code whose rounding matters.  A float is held   *)
(* as a whole number of units of 1/FloatOne, and every operation gives the *)
(* exact result rounded to Precision significant bits, ties to even, as    *)
(* IEEE 754 does with 53 bits.  The exponent has no upper limit, and       *)
(* below 2^Precision units every whole number of units is a float, as     *)
(* the subnormal numbers are.                                              *)
(***************************************************************************)
RECURSIVE f64_exponent(_, _, _)
\* The least e from e0 on with n / d < 2^(Precision + e)  (n >= 0, d > 0).
f64_exponent(n, d, e0) == IF n < d * 2^(Precision + e0) THEN e0 ELSE f64_exponent(n, d, e0 + 1)

\* n / d (n >= 0, d > 0) rounded to the nearest whole number, ties to even.
round_ties_even(n, d) ==
    LET q == n \div d
        r == n % d
    IN IF 2 * r > d \/ (2 * r = d /\ q % 2 = 1) THEN q + 1 ELSE q

\* The float nearest to n / d units (d > 0).
f64_round(n, d) ==
    LET ulp == 2^f64_exponent(Abs(n), d, 0)
        magnitude == round_ties_even(Abs(n), d * ulp) * ulp
    IN IF n >= 0 THEN magnitude ELSE -magnitude

\* The float nearest to n / d.
f64_of(n, d) == f64_round(n * FloatOne, d)

\* Whether a whole number of units is a float.
is_f64(x) == f64_round(x, 1) = x

f64_add(x, y) == f64_round(x + y, 1)

f64_mul(x, y) == f64_round(x * y, FloatOne)

\* x / y for y # 0.
f64_div(x, y) == IF y > 0 THEN f64_round(x * FloatOne, y) ELSE f64_round(-(x * FloatOne), -y)

\* f64::signum: 1.0 for a positive number and for +0.0, -1.0 for a negative one.
signum(x) == IF x >= 0 THEN FloatOne ELSE -FloatOne

(***************************************************************************)
(* Cell::summarize_request_energy_deltas: a fold over the costed requests  *)
(* that adds positive deltas to income and subtracts the others into       *)
(* expense.                                                                *)
(***************************************************************************)
RECURSIVE summarize_fold(_, _, _)
summarize_fold(costed_requests, i, acc) ==
    IF i > Len(costed_requests) THEN acc
    ELSE LET energy_delta == costed_requests[i].energy_delta
         IN summarize_fold(costed_requests, i + 1,
                IF energy_delta > 0
                THEN [income |-> acc.income + energy_delta, expense |-> acc.expense]
                ELSE [income |-> acc.income, expense |-> acc.expense - energy_delta])

\* Variant: the income of the requests is left out of the summary.
summarize_request_energy_deltas_no_income(costed_requests) ==
    [income |-> 0,
     expense |-> summarize_fold(costed_requests, 1, [income |-> 0, expense |-> 0]).expense]

summarize_request_energy_deltas(costed_requests) ==
    summarize_fold(costed_requests, 1, [income |-> 0, expense |-> 0])

\* (total_start_energy / expense).min(1.0): x/0 is +inf or NaN in f64 and
\* f64::min(NaN, 1.0) is 1.0, so a zero expense gives fraction 1.0.
calc_budgeted_fraction(total_start_energy, expense) ==
    IF expense = 0 THEN FracOne
    ELSE Min(RoundDiv(total_start_energy * FracOne, expense), FracOne)

\* Variant: every request takes the common fraction, income requests included.
request_budgeted_fraction_same_for_all(energy_delta, budgeted_fraction) ==
    budgeted_fraction

\* The fraction a request is budgeted with: the common fraction when it
\* costs energy, 1.0 otherwise.
request_budgeted_fraction(energy_delta, budgeted_fraction) ==
    IF energy_delta < 0 THEN budgeted_fraction ELSE FracOne

\* Variant: the expense is charged in full, whatever the cell can afford.
budget_control_requests_unbudgeted(start_energy, costed_requests) ==
    LET sums == summarize_request_energy_deltas(costed_requests)
        total_start_energy == start_energy + sums.income
        budgeted_fraction == calc_budgeted_fraction(total_start_energy, sums.expense)
    IN [end_energy |-> total_start_energy - sums.expense,
        budgeted_requests |->
            [i \in DOMAIN costed_requests |->
                [control_request |-> costed_requests[i].control_request,
                 energy_delta |-> costed_requests[i].energy_delta,
                 budgeted_fraction |->
                     request_budgeted_fraction(costed_requests[i].energy_delta,
                                               budgeted_fraction)]]]

\* Cell::budget_control_requests
budget_control_requests(start_energy, costed_requests) ==
    LET sums == summarize_request_energy_deltas(costed_requests)
        total_start_energy == start_energy + sums.income
        budgeted_fraction == calc_budgeted_fraction(total_start_energy, sums.expense)
        adjusted_expense ==
            Min(RoundDiv(sums.expense * budgeted_fraction, FracOne), total_start_energy)
    IN [end_energy |-> total_start_energy - adjusted_expense,
        budgeted_requests |->
            [i \in DOMAIN costed_requests |->
                [control_request |-> costed_requests[i].control_request,
                 energy_delta |-> costed_requests[i].energy_delta,
                 budgeted_fraction |->
                     request_budgeted_fraction(costed_requests[i].energy_delta,
                                               budgeted_fraction)]]]

(***************************************************************************)
(* Layers (evo_domain/src/biology/layers.rs).                              *)
(***************************************************************************)
HEALING_CHANNEL_INDEX == 0

RESIZE_CHANNEL_INDEX == 1

RETAIN_BOND_CHANNEL_INDEX == 2

BUDDING_ANGLE_CHANNEL_INDEX == 3

DONATION_ENERGY_CHANNEL_INDEX == 4

FORCE_X_CHANNEL_INDEX == 2

FORCE_Y_CHANNEL_INDEX == 3

MAX_BONDS == 8

\* Force::new, Force::ZERO and the sum of two forces.
Force(x, y) == <<x, y>>

ZERO_FORCE == Force(0, 0)

add_force(force1, force2) == Force(force1[1] + force2[1], force1[2] + force2[2])

\* Positions and velocities are held in units of 1/VelOne.
VelOne == 4

ZERO_POSITION == <<0, 0>>

ZERO_VELOCITY == <<0, 0>>

\* f64::INFINITY as a max_growth_rate.
INFINITY == -1

\* LayerHealthParameters::DEFAULT
DEFAULT_HEALTH_PARAMETERS ==
    [healing_energy_delta |-> 0,
     entropic_damage_health_delta |-> 0,
     overlap_damage_health_delta |-> 0]

\* LayerResizeParameters::UNLIMITED (rates are fractions of FracOne).
UNLIMITED_RESIZE_PARAMETERS ==
    [growth_energy_delta |-> 0,
     max_growth_rate |-> INFINITY,
     shrinkage_energy_delta |-> 0,
     max_shrinkage_rate |-> FracOne]

\* CellLayer::new with CellLayerBody::new: full health, living brain,
\* default parameters; init_from_area sets mass = area * density and the
\* outer radius of a disc of the area.  The specialty's own state is the
\* efficiency of a photo layer and the force of a thruster layer.
\* A radius r is held as the area pi * r^2 of the disc of that radius, so
\* sqrt(area / pi) is held as area.
NewCellLayer(area, density, specialty) ==
    [area |-> area,
     density |-> density,
     mass |-> area * density,
     outer_radius |-> area,
     health |-> HealthOne,
     brain |-> "Living",
     specialty |-> specialty,
     efficiency |-> IF specialty = "Photo" THEN 1 ELSE 0,
     force_x |-> 0,
     force_y |-> 0,
     health_parameters |-> DEFAULT_HEALTH_PARAMETERS,
     resize_parameters |-> UNLIMITED_RESIZE_PARAMETERS]

with_health_parameters(layer, health_parameters) ==
    [layer EXCEPT !.health_parameters = health_parameters]

with_resize_parameters(layer, resize_parameters) ==
    [layer EXCEPT !.resize_parameters = resize_parameters]

\* CellLayer::with_health sets the health and leaves the brain alone.
with_health(layer, health) == [layer EXCEPT !.health = health]

\* CellLayerBody::damage asserts a health loss that is not negative.
damage_panics(health_loss) == health_loss < 0

\* Variant: the damaged layer keeps the living brain at health 0.
living_brain_damage_keeps_brain(layer, health_loss) ==
    [layer EXCEPT !.health = Max(layer.health - health_loss, 0)]

\* LivingCellLayerBrain::damage: CellLayerBody::damage, then the switch to
\* the dead brain when the health is 0.
living_brain_damage(layer, health_loss) ==
    LET health == Max(layer.health - health_loss, 0)
    IN [layer EXCEPT !.health = health,
                     !.brain = IF health = 0 THEN "Dead" ELSE layer.brain]

\* CellLayer::damage: the layer's brain decides; DeadCellLayerBrain::damage
\* does nothing.
damage(layer, health_loss) ==
    IF layer.brain = "Dead" THEN layer
    ELSE living_brain_damage(layer, health_loss)

\* CellLayer::dead
dead(layer) == damage(layer, HealthOne)

\* Variant: a layer never counts as dead.
layer_is_alive_always(layer) == TRUE

\* CellLayer::is_alive
layer_is_alive(layer) == layer.health > 0

\* CellLayerBody::spawn with the specialty's spawn: a fresh living layer of
\* the given area with the parent's parameters; a spawned thruster has no
\* force.
spawn_layer(layer, area) ==
    [layer EXCEPT !.area = area,
                  !.mass = area * layer.density,
                  !.outer_radius = area,
                  !.health = HealthOne,
                  !.brain = "Living",
                  !.force_x = 0,
                  !.force_y = 0]

RECURSIVE overlap_damage_fold(_, _, _)
\* The fold of LivingCellLayerBrain::overlap_damage: the sum of
\* overlap_damage_health_delta * magnitude over the overlaps.
overlap_damage_fold(layer, overlaps, i) ==
    IF i > Len(overlaps) THEN 0
    ELSE layer.health_parameters.overlap_damage_health_delta * overlaps[i]
             + overlap_damage_fold(layer, overlaps, i + 1)

\* The specialty's after_influences: a photo layer yields energy from the
\* light, a thruster yields its stored force, the others yield nothing.
specialty_after_influences(layer, light_intensity) ==
    [energy |-> IF layer.specialty = "Photo"
                THEN RoundDiv(light_intensity * layer.efficiency
                                  * layer.health * layer.area, HealthOne)
                ELSE 0,
     force |-> IF layer.specialty = "Thruster"
               THEN Force(layer.force_x, layer.force_y)
               ELSE ZERO_FORCE]

\* Variant: a layer with the dead brain still runs its specialty.
layer_after_influences_ignores_brain(layer, light_intensity, overlaps) ==
    LET yield == specialty_after_influences(layer, light_intensity)
    IN [layer |-> layer, energy |-> yield.energy, force |-> yield.force]

\* CellLayerBrain::after_influences.  The dead brain yields nothing and
\* leaves the layer alone.  The living brain applies entropic damage, then
\* overlap damage, then the specialty's after_influences on the damaged
\* body; the living brain that was entered finishes the call even when the
\* damage has just switched the body to the dead brain.  overlaps is the
\* list of the magnitudes of the cell's overlaps.  Returns the layer, the
\* energy and the force it yields.
layer_after_influences(layer, light_intensity, overlaps) ==
    IF layer.brain = "Dead" THEN [layer |-> layer, energy |-> 0, force |-> ZERO_FORCE]
    ELSE LET entropic == living_brain_damage(
                             layer, -layer.health_parameters.entropic_damage_health_delta)
             damaged == living_brain_damage(
                            entropic, -overlap_damage_fold(entropic, overlaps, 1))
             yield == specialty_after_influences(damaged, light_intensity)
         IN [layer |-> damaged, energy |-> yield.energy, force |-> yield.force]

\* CellLayerBody::bound_resize_delta_area
bound_resize_delta_area(layer, requested_delta_area) ==
    IF requested_delta_area >= 0
    THEN IF layer.resize_parameters.max_growth_rate = INFINITY
         THEN requested_delta_area
         ELSE Min(requested_delta_area,
                  RoundDiv(layer.resize_parameters.max_growth_rate * layer.area, FracOne))
    ELSE Max(requested_delta_area,
             -RoundDiv(layer.resize_parameters.max_shrinkage_rate * layer.area, FracOne))

\* CostedControlRequest: the request with its energy delta.
Costed(request, energy_delta) ==
    [control_request |-> request, energy_delta |-> energy_delta]

\* CellLayerBody::cost_restore_health
cost_restore_health(layer, request) ==
    Costed(request,
           RoundDiv(layer.health_parameters.healing_energy_delta * layer.area
                        * request.requested_value, HealthOne))

\* Variant: the cost is scaled by the health of the layer.
cost_resize_scaled_by_health(layer, request) ==
    LET delta_area == bound_resize_delta_area(layer, request.requested_value)
        energy_delta_per_area ==
            IF request.requested_value >= 0
            THEN layer.resize_parameters.growth_energy_delta
            ELSE -layer.resize_parameters.shrinkage_energy_delta
    IN Costed(request,
              RoundDiv(layer.health * delta_area * energy_delta_per_area, HealthOne))

\* CellLayerBody::cost_resize
cost_resize(layer, request) ==
    LET delta_area == bound_resize_delta_area(layer, request.requested_value)
        energy_delta_per_area ==
            IF request.requested_value >= 0
            THEN layer.resize_parameters.growth_energy_delta
            ELSE -layer.resize_parameters.shrinkage_energy_delta
    IN Costed(request, delta_area * energy_delta_per_area)

\* BondingCellLayerSpecialty::cost_control_request
bonding_cost_control_request(request) ==
    IF request.channel_index = DONATION_ENERGY_CHANNEL_INDEX
    THEN Costed(request, -request.requested_value)
    ELSE Costed(request, 0)

\* ThrusterCellLayerSpecialty::cost_control_request: forces are free.
thruster_cost_control_request(request) == Costed(request, 0)

\* A living layer hands a request on a channel above RESIZE to its
\* specialty: the bonding specialty knows the channels 2 to 4, the thruster
\* the channels 2 and 3, and CellLayerSpecialty::cost_control_request
\* panics otherwise.
cost_control_request_panics(layer, request) ==
    /\ layer.brain = "Living"
    /\ request.channel_index > RESIZE_CHANNEL_INDEX
    /\ \/ layer.specialty \notin {"Bonding", "Thruster"}
       \/ /\ layer.specialty = "Bonding"
          /\ request.channel_index > DONATION_ENERGY_CHANNEL_INDEX
       \/ /\ layer.specialty = "Thruster"
          /\ request.channel_index > FORCE_Y_CHANNEL_INDEX

\* The living brain's cost_control_request dispatches on the channel.
living_brain_cost_control_request(layer, request) ==
    IF request.channel_index = HEALING_CHANNEL_INDEX THEN cost_restore_health(layer, request)
    ELSE IF request.channel_index = RESIZE_CHANNEL_INDEX THEN cost_resize(layer, request)
    ELSE IF layer.specialty = "Thruster" THEN thruster_cost_control_request(request)
    ELSE bonding_cost_control_request(request)

\* CellLayerBrain::cost_control_request: the dead brain costs every request
\* as free.
cost_control_request(layer, request) ==
    IF layer.brain = "Dead" THEN Costed(request, 0)
    ELSE living_brain_cost_control_request(layer, request)

\* Variant: the health is restored by all that the budget allows.
actual_delta_health_unbounded(layer, requested_delta_health, budgeted_fraction) ==
    RoundDiv(budgeted_fraction * requested_delta_health, FracOne)

\* CellLayerBody::actual_delta_health
actual_delta_health(layer, requested_delta_health, budgeted_fraction) ==
    Min(RoundDiv(budgeted_fraction * requested_delta_health, FracOne),
        HealthOne - layer.health)

\* Variant: the requested delta is not bounded by the resize rates.
actual_delta_area_unbounded(layer, requested_delta_area, budgeted_fraction) ==
    Max(RoundDiv(layer.health * budgeted_fraction * requested_delta_area,
                 HealthOne * FracOne),
        -layer.area)

\* CellLayerBody::actual_delta_area
actual_delta_area(layer, requested_delta_area, budgeted_fraction) ==
    Max(RoundDiv(layer.health * budgeted_fraction
                     * bound_resize_delta_area(layer, requested_delta_area),
                 HealthOne * FracOne),
        -layer.area)

\* Variant: the mass stays what it was.
resize_keeps_mass(layer, delta_area) ==
    [layer EXCEPT !.area = layer.area + delta_area]

\* CellLayerBody::resize
resize(layer, delta_area) ==
    [layer EXCEPT !.area = layer.area + delta_area,
                  !.mass = (layer.area + delta_area) * layer.density]

\* BondRequest::NONE and NONE_BOND_REQUESTS
NONE_BOND_REQUEST == [retain_bond |-> FALSE, budding_angle |-> 0, donation_energy |-> 0]

NONE_BOND_REQUESTS == [slot \in 0 .. (MAX_BONDS - 1) |-> NONE_BOND_REQUEST]

\* Variant: the donation is not scaled by the health of the layer.
bonding_execute_control_request_ignores_health(layer, request, bond_requests) ==
    LET slot == request.control_request.value_index
        value == request.control_request.requested_value
    IN IF request.control_request.channel_index = RETAIN_BOND_CHANNEL_INDEX
       THEN [bond_requests EXCEPT ![slot].retain_bond = (value > 0)]
       ELSE IF request.control_request.channel_index = BUDDING_ANGLE_CHANNEL_INDEX
       THEN [bond_requests EXCEPT ![slot].budding_angle = value]
       ELSE [bond_requests EXCEPT ![slot].donation_energy =
                RoundDiv(request.budgeted_fraction * value, FracOne)]

\* BondingCellLayerSpecialty::execute_control_request
bonding_execute_control_request(layer, request, bond_requests) ==
    LET slot == request.control_request.value_index
        value == request.control_request.requested_value
    IN IF request.control_request.channel_index = RETAIN_BOND_CHANNEL_INDEX
       THEN [bond_requests EXCEPT ![slot].retain_bond = (value > 0)]
       ELSE IF request.control_request.channel_index = BUDDING_ANGLE_CHANNEL_INDEX
       THEN [bond_requests EXCEPT ![slot].budding_angle = value]
       ELSE [bond_requests EXCEPT ![slot].donation_energy =
                RoundDiv(layer.health * request.budgeted_fraction * value,
                         HealthOne * FracOne)]

\* Variant: the force stored is not scaled by the health of the layer.
thruster_execute_control_request_ignores_health(layer, request) ==
    LET force == RoundDiv(request.budgeted_fraction
                              * request.control_request.requested_value, FracOne)
    IN IF request.control_request.channel_index = FORCE_X_CHANNEL_INDEX
       THEN [layer EXCEPT !.force_x = force]
       ELSE [layer EXCEPT !.force_y = force]

\* ThrusterCellLayerSpecialty::execute_control_request
thruster_execute_control_request(layer, request) ==
    LET force == RoundDiv(layer.health * request.budgeted_fraction
                              * request.control_request.requested_value,
                          HealthOne * FracOne)
    IN IF request.control_request.channel_index = FORCE_X_CHANNEL_INDEX
       THEN [layer EXCEPT !.force_x = force]
       ELSE [layer EXCEPT !.force_y = force]

\* CellLayerBody::actual_delta_health asserts a request that is not negative.
actual_delta_health_panics(requested_delta_health) == requested_delta_health < 0

\* CellChanges::new: no energy change and a zero CellLayerChanges for each
\* of num_layers layers.
CellChanges_new(num_layers) ==
    [energy |-> 0, layers |-> [k \in 1 .. num_layers |-> [health |-> 0, area |-> 0]]]

\* The living brain adds a delta to the health or the area of the layer's
\* entry of the CellChanges; an entry that does not exist is left to the
\* caller, which records the failed index.
record_layer_change(changes, k, field, delta) ==
    IF k >= Len(changes.layers) THEN changes
    ELSE IF field = "health"
    THEN [changes EXCEPT !.layers[k + 1].health = @ + delta]
    ELSE [changes EXCEPT !.layers[k + 1].area = @ + delta]

\* LivingCellLayerBrain::execute_control_request on the layer the request
\* names.  The specialty's execute_control_request panics on the channels
\* on which its cost_control_request panics.
living_brain_execute_control_request(st, request, changes_layers) ==
    LET k == request.control_request.layer_index
        layer == st.layers[k + 1]
        channel == request.control_request.channel_index
        value == request.control_request.requested_value
    IN IF channel = HEALING_CHANNEL_INDEX
       THEN LET delta_health == actual_delta_health(layer, value, request.budgeted_fraction)
            IN IF actual_delta_health_panics(value) THEN [st EXCEPT !.panicked = TRUE]
               ELSE [st EXCEPT !.layers[k + 1].health = layer.health + delta_health,
                               !.changes = record_layer_change(@, k, "health", delta_health),
                               !.panicked = st.panicked \/ k >= changes_layers]
       ELSE IF channel = RESIZE_CHANNEL_INDEX
       THEN LET delta_area == actual_delta_area(layer, value, request.budgeted_fraction)
                recorded == record_layer_change(st.changes, k, "area", delta_area)
            IN [st EXCEPT !.layers[k + 1] = resize(layer, delta_area),
                          !.changes =
                              IF k >= changes_layers THEN recorded
                              ELSE [recorded EXCEPT !.energy = @ +
                                       RoundDiv(request.energy_delta
                                                    * request.budgeted_fraction, FracOne)],
                          !.panicked = st.panicked \/ k >= changes_layers]
       ELSE IF cost_control_request_panics(layer, request.control_request)
       THEN [st EXCEPT !.panicked = TRUE]
       ELSE IF layer.specialty = "Thruster"
       THEN [st EXCEPT !.layers[k + 1] = thruster_execute_control_request(layer, request)]
       ELSE [st EXCEPT !.bond_requests =
                           bonding_execute_control_request(layer, request, st.bond_requests)]

\* CellLayerBrain::execute_control_request on one layer.  st carries the
\* cell's layers, the bond requests, the cell's CellChanges of the tick and
\* whether an index into the CellChanges (changes_layers entries) was out
\* of range.  The dead brain does nothing.
execute_control_request(st, request, changes_layers) ==
    IF st.layers[request.control_request.layer_index + 1].brain = "Dead" THEN st
    ELSE living_brain_execute_control_request(st, request, changes_layers)

(***************************************************************************)
(* Bonds (evo_domain/src/physics/bond.rs).  Node and edge handles are      *)
(* positive integers; NoEdge is the empty bond slot (Option::None).        *)
(***************************************************************************)
NoEdge == 0

\* Bond::new asserts that the two endpoints differ.
bond_new_panics(node1_handle, node2_handle) == node1_handle = node2_handle

\* Bond::new
bond_new(node1_handle, node2_handle) ==
    [edge_handle |-> NoEdge,
     node1_handle |-> node1_handle,
     node2_handle |-> node2_handle,
     energy_for_cell1 |-> 0,
     energy_for_cell2 |-> 0]

\* Variant: the energy is stored in the slot of the cell that sets it.
set_energy_from_cell_own_slot(bond, cell_handle, energy) ==
    IF cell_handle = bond.node1_handle
    THEN [bond |-> [bond EXCEPT !.energy_for_cell1 = energy], panicked |-> FALSE]
    ELSE IF cell_handle = bond.node2_handle
    THEN [bond |-> [bond EXCEPT !.energy_for_cell2 = energy], panicked |-> FALSE]
    ELSE [bond |-> bond, panicked |-> TRUE]

\* Bond::set_energy_from_cell
set_energy_from_cell(bond, cell_handle, energy) ==
    IF cell_handle = bond.node1_handle
    THEN [bond |-> [bond EXCEPT !.energy_for_cell2 = energy], panicked |-> FALSE]
    ELSE IF cell_handle = bond.node2_handle
    THEN [bond |-> [bond EXCEPT !.energy_for_cell1 = energy], panicked |-> FALSE]
    ELSE [bond |-> bond, panicked |-> TRUE]

\* Variant: a claim empties both slots of the bond.
claim_energy_for_cell_both_slots(bond, cell_handle) ==
    IF cell_handle = bond.node1_handle
    THEN [ret_energy |-> bond.energy_for_cell1,
          bond |-> [bond EXCEPT !.energy_for_cell1 = 0, !.energy_for_cell2 = 0],
          panicked |-> FALSE]
    ELSE IF cell_handle = bond.node2_handle
    THEN [ret_energy |-> bond.energy_for_cell2,
          bond |-> [bond EXCEPT !.energy_for_cell1 = 0, !.energy_for_cell2 = 0],
          panicked |-> FALSE]
    ELSE [ret_energy |-> 0, bond |-> bond, panicked |-> TRUE]

\* Variant: a claim returns the slot value and leaves it in the slot.
claim_energy_for_cell_keeps_slot(bond, cell_handle) ==
    IF cell_handle = bond.node1_handle
    THEN [ret_energy |-> bond.energy_for_cell1, bond |-> bond, panicked |-> FALSE]
    ELSE IF cell_handle = bond.node2_handle
    THEN [ret_energy |-> bond.energy_for_cell2, bond |-> bond, panicked |-> FALSE]
    ELSE [ret_energy |-> 0, bond |-> bond, panicked |-> TRUE]

\* Bond::claim_energy_for_cell
claim_energy_for_cell(bond, cell_handle) ==
    IF cell_handle = bond.node1_handle
    THEN [ret_energy |-> bond.energy_for_cell1,
          bond |-> [bond EXCEPT !.energy_for_cell1 = 0], panicked |-> FALSE]
    ELSE IF cell_handle = bond.node2_handle
    THEN [ret_energy |-> bond.energy_for_cell2,
          bond |-> [bond EXCEPT !.energy_for_cell2 = 0], panicked |-> FALSE]
    ELSE [ret_energy |-> 0, bond |-> bond, panicked |-> TRUE]

\* Variant: only the assert of two different bonds.
gusset_new_panics_same_bond_only(bond1, bond2) ==
    bond1.edge_handle = bond2.edge_handle

\* AngleGusset::new asserts two different bonds that share the middle node.
gusset_new_panics(bond1, bond2) ==
    \/ bond1.edge_handle = bond2.edge_handle
    \/ bond1.node2_handle # bond2.node1_handle

\* AngleGusset::new (the angle plays no part in the structure)
gusset_new(bond1, bond2) ==
    [edge1_handle |-> bond1.edge_handle, edge2_handle |-> bond2.edge_handle]

(***************************************************************************)
(* Cells.                                                                  *)
(***************************************************************************)
Slots == 0 .. (MAX_BONDS - 1)

\* CellLayerBody::update_outer_radius: sqrt(inner_radius^2 + area / pi)
update_outer_radius(layer, inner_radius) ==
    [layer EXCEPT !.outer_radius = inner_radius + layer.area]

RECURSIVE update_layer_outer_radii_fold(_, _, _)
update_layer_outer_radii_fold(layers, k, inner_radius) ==
    IF k > Len(layers) THEN [layers |-> layers, radius |-> inner_radius]
    ELSE LET updated == update_outer_radius(layers[k], inner_radius)
         IN update_layer_outer_radii_fold([layers EXCEPT ![k] = updated], k + 1,
                                          updated.outer_radius)

\* Variant: the layers keep the outer radii they have.
update_layer_outer_radii_keeps_radii(layers) ==
    [layers |-> layers, radius |-> layers[Len(layers)].outer_radius]

\* Cell::update_layer_outer_radii: from the innermost layer outwards, every
\* layer gets its outer radius from the outer radius of the layer inside
\* it (0 for layer 0); the result is the outer radius of the last layer.
update_layer_outer_radii(layers) ==
    update_layer_outer_radii_fold(layers, 1, 0)

RECURSIVE calc_mass_fold(_, _)
calc_mass_fold(layers, k) ==
    IF k > Len(layers) THEN 0 ELSE layers[k].mass + calc_mass_fold(layers, k + 1)

\* Cell::calc_mass
calc_mass(layers) == calc_mass_fold(layers, 1)

\* Cell::new with with_initial_energy and with_control: no handle yet, no
\* bonds, an empty environment (no light, no overlaps) and no forces.  The
\* control is the list of requests it issues in every tick
\* (ContinuousRequestsControl; the empty list is NullControl).
cell_new(layers, energy, control) ==
    [node_handle |-> 0,
     energy |-> energy,
     layers |-> update_layer_outer_radii(layers).layers,
     radius |-> update_layer_outer_radii(layers).radius,
     mass |-> calc_mass(layers),
     control |-> control,
     edge_handles |-> [slot \in Slots |-> NoEdge],
     light_intensity |-> 0,
     overlaps |-> <<>>,
     net_force |-> ZERO_FORCE,
     position |-> ZERO_POSITION,
     velocity |-> ZERO_VELOCITY]

\* The position and velocity arguments of Cell::new.
cell_at(cell, position, velocity) ==
    [cell EXCEPT !.position = position, !.velocity = velocity]

\* NewtonianBody::exert_forces_for_one_tick: the velocity gains the net
\* force divided by the mass, for a duration of one tick.
exert_forces_for_one_tick(cell) ==
    [cell EXCEPT !.velocity =
        <<@[1] + RoundDiv(VelOne * cell.net_force[1], cell.mass),
          @[2] + RoundDiv(VelOne * cell.net_force[2], cell.mass)>>]

\* NewtonianBody::move_for_one_tick: the position gains the velocity, for a
\* duration of one tick.
move_for_one_tick(cell) ==
    [cell EXCEPT !.position = <<@[1] + cell.velocity[1], @[2] + cell.velocity[2]>>]

has_edge(cell, slot) == cell.edge_handles[slot] # NoEdge

\* Cell::is_alive: some layer is alive.
cell_is_alive(cell) == \E k \in DOMAIN cell.layers : layer_is_alive(cell.layers[k])

RECURSIVE after_influences_fold(_, _)
after_influences_fold(cell, k) ==
    IF k > Len(cell.layers) THEN cell
    ELSE LET r == layer_after_influences(cell.layers[k], cell.light_intensity,
                                         cell.overlaps)
         IN after_influences_fold(
                [cell EXCEPT !.layers[k] = r.layer,
                             !.energy = cell.energy + r.energy,
                             !.net_force = add_force(cell.net_force, r.force)],
                k + 1)

\* Cell::after_influences: every layer in order, adding its energy to the
\* pool and its force to the cell's forces.
cell_after_influences(cell) == after_influences_fold(cell, 1)

RECURSIVE execute_fold(_, _, _, _)
execute_fold(st, budgeted_requests, i, changes_layers) ==
    IF i > Len(budgeted_requests) THEN st
    ELSE execute_fold(execute_control_request(st, budgeted_requests[i], changes_layers),
                      budgeted_requests, i + 1, changes_layers)

\* Cell::cost_control_requests
cost_control_requests(cell, control_requests) ==
    [i \in DOMAIN control_requests |->
        cost_control_request(cell.layers[control_requests[i].layer_index + 1],
                             control_requests[i])]

\* Cell::run_control: get the control's requests, cost every request on the
\* layers as they are, budget them against the energy pool, set the pool to
\* the end energy, execute the budgeted requests in order, then recompute
\* the outer radii of the layers, the radius and the mass.
run_control(cell, changes_layers) ==
    LET control_requests == cell.control
        costed_requests == cost_control_requests(cell, control_requests)
        budget == budget_control_requests(cell.energy, costed_requests)
        st == execute_fold([layers |-> cell.layers,
                            bond_requests |-> NONE_BOND_REQUESTS,
                            changes |-> CellChanges_new(changes_layers),
                            panicked |-> FALSE],
                           budget.budgeted_requests, 1, changes_layers)
    IN [cell |-> [cell EXCEPT !.energy = budget.end_energy,
                              !.layers = update_layer_outer_radii(st.layers).layers,
                              !.radius = update_layer_outer_radii(st.layers).radius,
                              !.mass = calc_mass(st.layers)],
        bond_requests |-> st.bond_requests,
        budgeted_requests |-> budget.budgeted_requests,
        panicked |-> \/ st.panicked
                     \/ \E i \in DOMAIN control_requests :
                            cost_control_request_panics(
                                cell.layers[control_requests[i].layer_index + 1],
                                control_requests[i])]

\* Area of every layer of a budded child.
CHILD_LAYER_AREA == 1

\* Cell::create_and_place_child_cell: a cell of freshly spawned layers with
\* the given initial energy and a spawned copy of the parent's control, at
\* rest.  The child is held at the parent's centre: the offset that makes
\* the two cells touch needs the radii as lengths.
create_and_place_child_cell(cell, budding_angle, initial_energy) ==
    cell_at(cell_new([k \in DOMAIN cell.layers |->
                          spawn_layer(cell.layers[k], CHILD_LAYER_AREA)],
                     initial_energy, cell.control),
            cell.position, ZERO_VELOCITY)

(***************************************************************************)
(* SortableGraph: nodes, edges and meta-edges in storage order, with       *)
(* handles that stay valid while other elements are added or removed.      *)
(***************************************************************************)
EmptyGraph ==
    [nodes |-> <<>>, edges |-> <<>>, meta_edges |-> <<>>,
     next_node_handle |-> 1, next_edge_handle |-> 1]

NodeHandles(graph) == {graph.nodes[i].node_handle : i \in DOMAIN graph.nodes}

EdgeHandles(graph) == {graph.edges[i].edge_handle : i \in DOMAIN graph.edges}

NodeIndex(graph, handle) ==
    CHOOSE i \in DOMAIN graph.nodes : graph.nodes[i].node_handle = handle

EdgeIndex(graph, handle) ==
    CHOOSE i \in DOMAIN graph.edges : graph.edges[i].edge_handle = handle

\* SortableGraph::add_node
add_node(graph, node) ==
    [graph EXCEPT !.nodes = Append(@, [node EXCEPT !.node_handle = graph.next_node_handle]),
                  !.next_node_handle = @ + 1]

\* SortableGraph::add_edge: stores the edge and records its handle in the
\* given bond slot of each endpoint.
add_edge(graph, edge, slot1, slot2) ==
    LET handle == graph.next_edge_handle
        record(node) ==
            LET n1 == IF node.node_handle = edge.node1_handle
                      THEN [node EXCEPT !.edge_handles[slot1] = handle] ELSE node
            IN IF node.node_handle = edge.node2_handle
               THEN [n1 EXCEPT !.edge_handles[slot2] = handle] ELSE n1
    IN [graph EXCEPT !.edges = Append(@, [edge EXCEPT !.edge_handle = handle]),
                     !.nodes = [i \in DOMAIN @ |-> record(@[i])],
                     !.next_edge_handle = @ + 1]

\* SortableGraph::add_meta_edge
add_meta_edge(graph, meta_edge) ==
    [graph EXCEPT !.meta_edges = Append(@, meta_edge)]

\* SortableGraph::remove_edges: removes the edges, empties the bond slots
\* that held them and removes the meta-edges on a removed edge.
remove_edges(graph, handles) ==
    LET keep_edge(e) == e.edge_handle \notin handles
        keep_meta(m) == m.edge1_handle \notin handles /\ m.edge2_handle \notin handles
        clear(node) ==
            [node EXCEPT !.edge_handles =
                [slot \in Slots |-> IF node.edge_handles[slot] \in handles
                                    THEN NoEdge ELSE node.edge_handles[slot]]]
    IN [graph EXCEPT !.edges = SelectSeq(@, keep_edge),
                     !.meta_edges = SelectSeq(@, keep_meta),
                     !.nodes = [i \in DOMAIN @ |-> clear(@[i])]]

\* Variant: removing a node leaves its bonds in the graph.
remove_nodes_no_cascade(graph, handles) ==
    LET keep_node(n) == n.node_handle \notin handles
    IN [graph EXCEPT !.nodes = SelectSeq(@, keep_node)]

\* SortableGraph::remove_nodes: removes the nodes and, in cascade, every
\* edge with a removed endpoint.
remove_nodes(graph, handles) ==
    LET incident == {graph.edges[i].edge_handle : i \in
                        {j \in DOMAIN graph.edges :
                            \/ graph.edges[j].node1_handle \in handles
                            \/ graph.edges[j].node2_handle \in handles}}
        g1 == remove_edges(graph, incident)
        keep_node(n) == n.node_handle \notin handles
    IN [g1 EXCEPT !.nodes = SelectSeq(@, keep_node)]

(***************************************************************************)
(* State.                                                                  *)
(***************************************************************************)
VARIABLES
    start_energy,          \* budgeter: the start energy given
    costed_requests,       \* budgeter: the costed requests given
    budget,                \* budgeter: the result, or NoBudget before the call
    cell_graph,            \* World.cell_graph
    sunlight,              \* light intensity the Sunlight influence gives every cell
    pc,                    \* position of World::tick
    index,                 \* run_cell_controls: index of the next cell
    changes_layers,        \* layer entries of every CellChanges of the tick
    new_children,          \* run_cell_controls: children to add
    broken_bond_handles,   \* run_cell_controls: bonds to remove
    dead_cell_handles,     \* run_cell_controls: cells to remove
    ticks,                 \* ticks completed
    tick_start,            \* history: cell_graph when the tick began
    stage_start,           \* history: cell_graph before the last stage
    executed,              \* history: what each cell's control did in the last control stage
    layer,                 \* a layer on its own: the CellLayer
    layer_call,            \* a layer on its own: the last call with what it was given and gave
    layer_calls,           \* a layer on its own: calls made
    died,                  \* history: a damage has taken the layer's health to 0
    genome,                \* a genome on its own: the SparseNeuralNetGenome
    nnet,                  \* the SparseNeuralNet made of the genome (its node values)
    net_log,               \* history: how the genome was built and what the net was given
    spawned,               \* the genome spawned from the genome
    bench_bonds,           \* bonds on their own: the bonds made, in the order of their handles
    bond_call,             \* bonds on their own: the last call with what it was given and gave
    replay_graph,          \* World.cell_graph of a second world built in the same way
    sorted_bond_handles,   \* history: what remove_bonds gave to remove_edges in each world
    force_call,            \* forces on their own: the inputs of a call and what it gave
    controls               \* cell controls on their own: a control and its descendants

vars == <<start_energy, costed_requests, budget, cell_graph, sunlight, pc, index,
          changes_layers, new_children, broken_bond_handles, dead_cell_handles,
          ticks, tick_start, stage_start, executed, layer, layer_call, layer_calls,
          died, genome, nnet, net_log, spawned, bench_bonds, bond_call,
          replay_graph, sorted_bond_handles, force_call, controls>>

budget_vars == <<start_energy, costed_requests, budget>>

world_vars == <<cell_graph, sunlight, pc, index, changes_layers, new_children,
                broken_bond_handles, dead_cell_handles, ticks, tick_start,
                stage_start, executed>>

layer_vars == <<layer, layer_call, layer_calls, died>>

genome_vars == <<genome, nnet, net_log, spawned>>

bond_vars == <<bench_bonds, bond_call>>

replay_vars == <<replay_graph, sorted_bond_handles>>

force_vars == <<force_call>>

control_vars == <<controls>>

NoBudget == [end_energy |-> -1, budgeted_requests |-> <<>>]

\* No call has been made: the value of layer_call and bond_call before the
\* first call.
NoCall == [op |-> "none", panicked |-> FALSE]

\* The parts of the state that a specification does not use stay as they
\* are here.
NoBudgetCall ==
    /\ start_energy = 0
    /\ costed_requests = <<>>
    /\ budget = NoBudget

NoLayer ==
    /\ layer = <<>>
    /\ layer_call = NoCall
    /\ layer_calls = 0
    /\ died = FALSE

NoGenome ==
    /\ genome = <<>>
    /\ nnet = <<>>
    /\ net_log = <<>>
    /\ spawned = <<>>

NoBonds ==
    /\ bench_bonds = <<>>
    /\ bond_call = NoCall

NoReplay ==
    /\ replay_graph = <<>>
    /\ sorted_bond_handles = <<>>

NoForces == force_call = NoCall

NoControls == controls = <<>>

(***************************************************************************)
(* The budgeter on its own: any start energy, any list of costed requests. *)
(***************************************************************************)
DUMMY_CONTROL_REQUEST ==
    [layer_index |-> 0, channel_index |-> 0, value_index |-> 0, requested_value |-> 0]

SeqsUpTo(S, n) == UNION {[1 .. m -> S] : m \in 0 .. n}

CostedInputs ==
    SeqsUpTo({Costed(DUMMY_CONTROL_REQUEST, d) : d \in (-MaxDelta) .. MaxDelta}, MaxCosted)

InitBudget ==
    /\ start_energy \in 0 .. MaxStartEnergy
    /\ costed_requests \in CostedInputs
    /\ budget = NoBudget
    /\ cell_graph = EmptyGraph
    /\ sunlight = 0
    /\ pc = "idle"
    /\ index = 0
    /\ changes_layers = 0
    /\ new_children = <<>>
    /\ broken_bond_handles = {}
    /\ dead_cell_handles = <<>>
    /\ ticks = 0
    /\ tick_start = EmptyGraph
    /\ stage_start = EmptyGraph
    /\ executed = <<>>
    /\ NoLayer
    /\ NoGenome
    /\ NoBonds
    /\ NoReplay
    /\ NoForces
    /\ NoControls

BudgetControlRequests ==
    /\ budget = NoBudget
    /\ budget' = budget_control_requests(start_energy, costed_requests)
    /\ UNCHANGED <<start_energy, costed_requests>>
    /\ UNCHANGED <<world_vars, layer_vars, genome_vars, bond_vars, replay_vars, force_vars, control_vars>>

NextBudget == BudgetControlRequests

SpecBudget == InitBudget /\ [][NextBudget]_vars

(***************************************************************************)
(* The world (evo_domain/src/world.rs).                                    *)
(***************************************************************************)
\* World::new_world_changes: one CellChanges per cell, each with as many
\* layer entries as the first cell has layers.
new_world_changes(graph) ==
    IF graph.nodes = <<>> THEN 0 ELSE Len(graph.nodes[1].layers)

\* The overlap that UniversalOverlap adds to every cell's environment (its
\* magnitude) and the force that ConstantForce adds to every cell's forces.
UNIVERSAL_OVERLAP == [magnitude |-> 1]

CONSTANT_FORCE == Force(1, 1)

\* Variant: the constant force is exerted on the cell at once.
influences_apply_moves_cell(cell, light) ==
    [cell EXCEPT !.light_intensity = @ + light,
                 !.overlaps = Append(@, UNIVERSAL_OVERLAP.magnitude),
                 !.net_force = add_force(@, CONSTANT_FORCE),
                 !.velocity = <<@[1] + RoundDiv(VelOne * CONSTANT_FORCE[1], cell.mass),
                                @[2] + RoundDiv(VelOne * CONSTANT_FORCE[2], cell.mass)>>]

\* The influences of the world, in registration order, on one cell:
\* Sunlight adds its intensity to the cell's environment, UniversalOverlap
\* adds its overlap, SimpleForceInfluence adds the constant force.
influences_apply(cell, light) ==
    [cell EXCEPT !.light_intensity = @ + light,
                 !.overlaps = Append(@, UNIVERSAL_OVERLAP.magnitude),
                 !.net_force = add_force(@, CONSTANT_FORCE)]

\* Variant: the cells do not run after_influences in this stage.
apply_influences_only(graph, light) ==
    [graph EXCEPT !.nodes = [i \in DOMAIN @ |-> influences_apply(@[i], light)]]

\* World::apply_influences: every influence is applied, then every cell
\* runs after_influences.
apply_influences(graph, light) ==
    [graph EXCEPT !.nodes =
        [i \in DOMAIN @ |-> cell_after_influences(influences_apply(@[i], light))]]

RECURSIVE claim_fold(_, _, _)
claim_fold(cell, slot, st) ==
    IF slot >= MAX_BONDS THEN st
    ELSE IF ~has_edge(cell, slot) THEN claim_fold(cell, slot + 1, st)
    ELSE IF cell.edge_handles[slot] \notin {st.edges[i].edge_handle : i \in DOMAIN st.edges}
    THEN [st EXCEPT !.panicked = TRUE]
    ELSE LET i == CHOOSE i \in DOMAIN st.edges :
                      st.edges[i].edge_handle = cell.edge_handles[slot]
             r == claim_energy_for_cell(st.edges[i], cell.node_handle)
         IN claim_fold(cell, slot + 1,
                [energy |-> st.energy + r.ret_energy,
                 edges |-> [st.edges EXCEPT ![i] = r.bond],
                 panicked |-> st.panicked \/ r.panicked])

\* World::claim_bond_energy: the cell claims its slot of every bond it
\* holds and adds the sum to its energy.
claim_bond_energy(cell, edges) ==
    LET st == claim_fold(cell, 0, [energy |-> 0, edges |-> edges, panicked |-> FALSE])
    IN [cell |-> [cell EXCEPT !.energy = @ + st.energy],
        edges |-> st.edges,
        panicked |-> st.panicked]

RECURSIVE process_fold(_, _, _)
process_fold(graph, i, panicked) ==
    IF i > Len(graph.nodes) THEN [graph |-> graph, panicked |-> panicked]
    ELSE LET r == claim_bond_energy(graph.nodes[i], graph.edges)
         IN process_fold([graph EXCEPT !.nodes[i] = r.cell, !.edges = r.edges],
                         i + 1, panicked \/ r.panicked)

\* World::process_cell_bond_energy: every cell in storage order.
process_cell_bond_energy(graph) == process_fold(graph, 1, FALSE)

RECURSIVE bond_requests_fold(_, _, _, _)
bond_requests_fold(cell, bond_requests, slot, st) ==
    IF slot >= MAX_BONDS THEN st
    ELSE LET bond_request == bond_requests[slot]
         IN IF bond_request.retain_bond
            THEN IF bond_request.donation_energy # 0
                 THEN IF has_edge(cell, slot)
                      THEN LET i == CHOOSE i \in DOMAIN st.edges :
                                        st.edges[i].edge_handle = cell.edge_handles[slot]
                               r == set_energy_from_cell(st.edges[i], cell.node_handle,
                                                         bond_request.donation_energy)
                           IN bond_requests_fold(cell, bond_requests, slot + 1,
                                  [st EXCEPT !.edges[i] = r.bond,
                                             !.panicked = st.panicked \/ r.panicked])
                      ELSE bond_requests_fold(cell, bond_requests, slot + 1,
                               [st EXCEPT !.new_children = Append(@,
                                   [parent |-> cell.node_handle,
                                    bond_index |-> slot,
                                    child |-> create_and_place_child_cell(
                                                  cell, bond_request.budding_angle, 0),
                                    donated_energy |-> bond_request.donation_energy])])
                 ELSE bond_requests_fold(cell, bond_requests, slot + 1, st)
            ELSE IF has_edge(cell, slot)
                 THEN bond_requests_fold(cell, bond_requests, slot + 1,
                          [st EXCEPT !.broken_bond_handles = @ \cup {cell.edge_handles[slot]}])
                 ELSE bond_requests_fold(cell, bond_requests, slot + 1, st)

\* World::execute_bond_requests: slot by slot, deposit a donation into an
\* existing bond, queue a child for an empty slot, or mark an unretained
\* bond as broken.
execute_bond_requests(cell, edges, bond_requests, children, broken) ==
    bond_requests_fold(cell, bond_requests, 0,
        [edges |-> edges, new_children |-> children,
         broken_bond_handles |-> broken, panicked |-> FALSE])

\* Variant: the donation is handed to the child as its initial energy and
\* the bond is left empty.
add_child_with_energy(graph, new_child_data) ==
    LET child_handle == graph.next_node_handle
        g1 == add_node(graph, [new_child_data.child EXCEPT
                                  !.energy = new_child_data.donated_energy])
        bond == bond_new(new_child_data.parent, child_handle)
    IN add_edge(g1, bond, new_child_data.bond_index, 0)

\* The body of the loop of World::add_children: add the child, bond the
\* parent (node1) to it (node2), put the donation into the bond for the
\* child, and record the bond at the parent's slot and the child's slot 0.
add_child(graph, new_child_data) ==
    LET child_handle == graph.next_node_handle
        g1 == add_node(graph, new_child_data.child)
        bond == set_energy_from_cell(
                    bond_new(new_child_data.parent, child_handle),
                    new_child_data.parent, new_child_data.donated_energy).bond
    IN add_edge(g1, bond, new_child_data.bond_index, 0)

RECURSIVE add_children_fold(_, _, _)
add_children_fold(graph, children, i) ==
    IF i > Len(children) THEN graph
    ELSE add_children_fold(add_child(graph, children[i]), children, i + 1)

\* World::add_children
add_children(graph, children) == add_children_fold(graph, children, 1)

SeqToSet(q) == {q[i] : i \in DOMAIN q}

\* The orders in which a HashSet of the given elements can iterate.
Orders(set) ==
    {q \in [1 .. Cardinality(set) -> set] : SeqToSet(q) = set}

\* The sorted vector with one more handle in its place.
insert_sorted(sorted, handle) ==
    SelectSeq(sorted, LAMBDA h : h < handle) \o <<handle>>
        \o SelectSeq(sorted, LAMBDA h : h >= handle)

RECURSIVE sort_fold(_, _, _)
sort_fold(q, i, sorted) ==
    IF i > Len(q) THEN sorted ELSE sort_fold(q, i + 1, insert_sorted(sorted, q[i]))

\* Variant: the vector keeps the order in which the set iterated.
sort_unstable_keeps_order(q) == q

\* Vec::sort_unstable on handles: ascending order.
sort_unstable(q) == sort_fold(q, 1, <<>>)

\* Variant: the broken bonds stay in the graph.
remove_bonds_keeps_all(graph, bond_handles) == graph

\* World::remove_bonds: the handles of the HashSet, in the order in which
\* the set iterates (bond_handles), are collected into a vector, the vector
\* is sorted and goes to remove_edges.
remove_bonds(graph, bond_handles) ==
    LET sorted_handles == sort_unstable(bond_handles)
    IN remove_edges(graph, SeqToSet(sorted_handles))

\* Variant: the forces stay in the cell's accumulator.
clear_cell_environment_keeps_forces(cell) ==
    [cell EXCEPT !.light_intensity = 0, !.overlaps = <<>>]

\* World::clear_cell_environment: LocalEnvironment::clear and Forces::clear.
clear_cell_environment(cell) ==
    [cell EXCEPT !.light_intensity = 0, !.overlaps = <<>>, !.net_force = ZERO_FORCE]

\* Variant: the position is advanced with the velocity the cell had before
\* the forces were exerted.
move_cell_position_first(cell) == exert_forces_for_one_tick(move_for_one_tick(cell))

\* World::move_cell
move_cell(cell) == move_for_one_tick(exert_forces_for_one_tick(cell))

\* World::tick_cells: every cell of the graph is moved and its environment
\* and forces are cleared.
tick_cells(graph) ==
    [graph EXCEPT !.nodes =
        [i \in DOMAIN @ |-> clear_cell_environment(move_cell(@[i]))]]

\* Variant: the broken bonds are removed before the children are added.
update_cell_graph_bonds_first(graph, children, bond_handles, cell_handles, statement) ==
    IF statement = 1 THEN remove_bonds(graph, bond_handles)
    ELSE IF statement = 2 THEN add_children(graph, children)
    ELSE remove_nodes(graph, SeqToSet(cell_handles))

\* World::update_cell_graph, one statement at a time: 1 adds the children,
\* 2 removes the broken bonds, 3 removes the dead cells.  bond_handles is
\* the HashSet of broken bonds in the order in which it iterates.
update_cell_graph(graph, children, bond_handles, cell_handles, statement) ==
    IF statement = 1 THEN add_children(graph, children)
    ELSE IF statement = 2 THEN remove_bonds(graph, bond_handles)
    ELSE remove_nodes(graph, SeqToSet(cell_handles))

(***************************************************************************)
(* Worlds given to the builder.                                            *)
(***************************************************************************)
\* Growth costs energy, shrinkage yields some.
COSTLY_RESIZE_PARAMETERS ==
    [growth_energy_delta |-> -2,
     max_growth_rate |-> INFINITY,
     shrinkage_energy_delta |-> 1,
     max_shrinkage_rate |-> FracOne]

\* Healing costs energy and every tick takes one unit of health.
DECAYING_HEALTH_PARAMETERS ==
    [healing_energy_delta |-> -1,
     entropic_damage_health_delta |-> -1,
     overlap_damage_health_delta |-> 0]

ControlRequest(layer_index, channel_index, value_index, requested_value) ==
    [layer_index |-> layer_index, channel_index |-> channel_index,
     value_index |-> value_index, requested_value |-> requested_value]

\* CellLayer::healing_request
healing_request(layer_index, delta_health) ==
    ControlRequest(layer_index, HEALING_CHANNEL_INDEX, 0, delta_health)

\* CellLayer::resize_request
resize_request(layer_index, delta_area) ==
    ControlRequest(layer_index, RESIZE_CHANNEL_INDEX, 0, delta_area)

\* BondingCellLayerSpecialty::retain_bond_request
retain_bond_request(layer_index, bond_index, flag) ==
    ControlRequest(layer_index, RETAIN_BOND_CHANNEL_INDEX, bond_index,
                   IF flag THEN 1 ELSE 0)

\* BondingCellLayerSpecialty::donation_energy_request
donation_energy_request(layer_index, bond_index, energy) ==
    ControlRequest(layer_index, DONATION_ENERGY_CHANNEL_INDEX, bond_index, energy)

BondingLayer ==
    with_resize_parameters(NewCellLayer(1, 1, "Bonding"), COSTLY_RESIZE_PARAMETERS)

DecayingBondingLayer == with_health_parameters(BondingLayer, DECAYING_HEALTH_PARAMETERS)

PhotoLayer ==
    with_resize_parameters(NewCellLayer(2, 1, "Photo"), COSTLY_RESIZE_PARAMETERS)

DeadLayer == dead(NewCellLayer(1, 1, "Null"))

\* The cells given to the builder: layers, initial energy and control.
InitCells ==
    {\* buds or donates at slot 1, lets go of slot 0
     cell_new(<<BondingLayer>>, 10,
              <<retain_bond_request(0, 1, TRUE), donation_energy_request(0, 1, 2)>>),
     \* keeps and feeds the bond at slot 0
     cell_new(<<BondingLayer>>, 10,
              <<retain_bond_request(0, 0, TRUE), donation_energy_request(0, 0, 3)>>),
     \* keeps both bonds and asks for a donation it cannot afford
     cell_new(<<BondingLayer>>, 2,
              <<retain_bond_request(0, 0, TRUE), retain_bond_request(0, 1, TRUE),
                donation_energy_request(0, 1, 3)>>),
     \* loses health every tick, keeps both bonds, buds or donates at slot 1
     cell_new(<<DecayingBondingLayer>>, 10,
              <<retain_bond_request(0, 0, TRUE), retain_bond_request(0, 1, TRUE),
                donation_energy_request(0, 1, 4)>>),
     \* lives on light: grows the photo layer, shrinks the bonding layer
     cell_new(<<PhotoLayer, BondingLayer>>, 0,
              <<resize_request(0, 1), resize_request(1, -1),
                retain_bond_request(1, 0, TRUE),
                retain_bond_request(1, 1, FALSE)>>),
     \* alive, no control: lets go of every bond
     cell_new(<<BondingLayer>>, 5, <<>>),
     \* dead from the start
     cell_new(<<DeadLayer>>, 0, <<>>)}

\* ThrusterCellLayerSpecialty::force_x_request
force_x_request(layer_index, value) ==
    ControlRequest(layer_index, FORCE_X_CHANNEL_INDEX, 0, value)

\* ThrusterCellLayerSpecialty::force_y_request
force_y_request(layer_index, value) ==
    ControlRequest(layer_index, FORCE_Y_CHANNEL_INDEX, 0, value)

ThrusterLayer == NewCellLayer(1, 1, "Thruster")

\* The cells given to the builder of a world of moving cells: layers,
\* initial energy and control, position and velocity.
MotionCells ==
    {\* a ball that moves
     cell_at(cell_new(<<NewCellLayer(1, 1, "Null")>>, 0, <<>>),
             <<0, 0>>, <<VelOne, VelOne>>),
     \* thrusts to the right and downwards
     cell_new(<<ThrusterLayer>>, 0, <<force_x_request(0, 1), force_y_request(0, -1)>>),
     \* moves, and thrusts against the constant force
     cell_at(cell_new(<<ThrusterLayer>>, 0,
                      <<force_x_request(0, -1), force_y_request(0, -1)>>),
             <<VelOne, 0>>, <<VelOne, -VelOne>>),
     \* a heavier thruster that loses health every tick
     cell_new(<<with_health_parameters(NewCellLayer(2, 1, "Thruster"),
                                       DECAYING_HEALTH_PARAMETERS)>>,
              0, <<force_x_request(0, 2 * HealthOne)>>),
     \* lives on light: grows the photo layer, shrinks the bonding layer
     cell_at(cell_new(<<PhotoLayer, BondingLayer>>, 0,
                      <<resize_request(0, 1), resize_request(1, -1)>>),
             <<0, VelOne>>, <<-VelOne, 0>>)}

RECURSIVE with_cells(_, _, _)
\* World::with_cells
with_cells(graph, cells, i) ==
    IF i > Len(cells) THEN graph ELSE with_cells(add_node(graph, cells[i]), cells, i + 1)

RECURSIVE with_bonds(_, _, _)
\* World::with_bonds: every pair is bonded at slot 1 of the first cell and
\* slot 0 of the second.
with_bonds(graph, index_pairs, i) ==
    IF i > Len(index_pairs) THEN graph
    ELSE LET bond == bond_new(graph.nodes[index_pairs[i][1] + 1].node_handle,
                              graph.nodes[index_pairs[i][2] + 1].node_handle)
         IN with_bonds(add_edge(graph, bond, 1, 0), index_pairs, i + 1)

RECURSIVE with_angle_gussets(_, _, _)
\* World::with_angle_gussets
with_angle_gussets(graph, index_pairs, i) ==
    IF i > Len(index_pairs) THEN graph
    ELSE LET gusset == gusset_new(graph.edges[index_pairs[i][1] + 1],
                                  graph.edges[index_pairs[i][2] + 1])
         IN with_angle_gussets(add_meta_edge(graph, gusset), index_pairs, i + 1)

\* A chain of bonds (0,1), (1,2), ... and gussets on consecutive bonds.
ChainPairs(n) == [i \in 1 .. n |-> <<i - 1, i>>]

Init ==
    /\ start_energy = 0
    /\ costed_requests = <<>>
    /\ budget = NoBudget
    /\ \E n \in 1 .. MaxInitCells :
         \E cells \in [1 .. n -> InitCells] :
           \E nb \in 0 .. (n - 1) :
             \E ng \in 0 .. (IF nb = 0 THEN 0 ELSE nb - 1) :
               cell_graph = with_angle_gussets(
                                with_bonds(with_cells(EmptyGraph, cells, 1),
                                           ChainPairs(nb), 1),
                                ChainPairs(ng), 1)
    /\ sunlight = 1
    /\ pc = "idle"
    /\ index = 0
    /\ changes_layers = 0
    /\ new_children = <<>>
    /\ broken_bond_handles = {}
    /\ dead_cell_handles = <<>>
    /\ ticks = 0
    /\ tick_start = cell_graph
    /\ stage_start = cell_graph
    /\ executed = <<>>
    /\ NoLayer
    /\ NoGenome
    /\ NoBonds
    /\ NoReplay
    /\ NoForces
    /\ NoControls

\* A world of one or two moving cells, bonded or not.
InitMotion ==
    /\ NoBudgetCall
    /\ \E n \in {1, 2} :
         \E cells \in [1 .. n -> MotionCells] :
           \E nb \in 0 .. (n - 1) :
             cell_graph = with_bonds(with_cells(EmptyGraph, cells, 1), ChainPairs(nb), 1)
    /\ sunlight = 1
    /\ pc = "idle"
    /\ index = 0
    /\ changes_layers = 0
    /\ new_children = <<>>
    /\ broken_bond_handles = {}
    /\ dead_cell_handles = <<>>
    /\ ticks = 0
    /\ tick_start = cell_graph
    /\ stage_start = cell_graph
    /\ executed = <<>>
    /\ NoLayer
    /\ NoGenome
    /\ NoBonds
    /\ NoReplay
    /\ NoForces
    /\ NoControls

(***************************************************************************)
(* World::tick, stage by stage.                                            *)
(***************************************************************************)
ApplyInfluences ==
    /\ pc = "idle"
    /\ ticks < MaxTicks
    /\ changes_layers' = new_world_changes(cell_graph)
    /\ cell_graph' = apply_influences(cell_graph, sunlight)
    /\ pc' = "claim"
    /\ tick_start' = cell_graph
    /\ stage_start' = cell_graph
    /\ UNCHANGED <<sunlight, index, new_children, broken_bond_handles,
                   dead_cell_handles, ticks, executed>>
    /\ UNCHANGED <<budget_vars, layer_vars, genome_vars, bond_vars, replay_vars, force_vars, control_vars>>

ProcessCellBondEnergy ==
    /\ pc = "claim"
    /\ LET r == process_cell_bond_energy(cell_graph)
       IN IF r.panicked
          THEN pc' = "panicked" /\ UNCHANGED <<cell_graph, index, new_children,
                                       broken_bond_handles, dead_cell_handles, executed>>
          ELSE /\ cell_graph' = r.graph
               /\ pc' = "controls"
               /\ index' = 1
               /\ new_children' = <<>>
               /\ broken_bond_handles' = {}
               /\ dead_cell_handles' = <<>>
               /\ executed' = <<>>
    /\ stage_start' = cell_graph
    /\ UNCHANGED <<sunlight, changes_layers, ticks, tick_start>>
    /\ UNCHANGED <<budget_vars, layer_vars, genome_vars, bond_vars, replay_vars, force_vars, control_vars>>

\* One pass of the closure of run_cell_controls, for the cell at index.
RunCellControl ==
    /\ pc = "controls"
    /\ index <= Len(cell_graph.nodes)
    /\ LET cell == cell_graph.nodes[index]
           rc == run_control(cell, changes_layers)
           eb == execute_bond_requests(rc.cell, cell_graph.edges, rc.bond_requests,
                                       new_children, broken_bond_handles)
       IN   /\ IF rc.panicked \/ eb.panicked
               THEN /\ pc' = "panicked"
                    /\ UNCHANGED <<cell_graph, index, new_children, broken_bond_handles,
                                   dead_cell_handles, executed>>
               ELSE /\ cell_graph' = [cell_graph EXCEPT !.nodes[index] = rc.cell,
                                                        !.edges = eb.edges]
                    /\ pc' = "controls"
                    /\ index' = index + 1
                    /\ new_children' = eb.new_children
                    /\ broken_bond_handles' = eb.broken_bond_handles
                    /\ dead_cell_handles' =
                           IF ~cell_is_alive(rc.cell)
                           THEN Append(dead_cell_handles, cell.node_handle)
                           ELSE dead_cell_handles
                    /\ executed' = Append(executed,
                           [node_handle |-> cell.node_handle,
                            energy_before |-> cell.energy,
                            edge_handles |-> cell.edge_handles,
                            layers |-> rc.cell.layers,
                            budgeted_requests |-> rc.budgeted_requests,
                            bond_requests |-> rc.bond_requests])
    /\ stage_start' = cell_graph
    /\ UNCHANGED <<sunlight, changes_layers, ticks, tick_start>>
    /\ UNCHANGED <<budget_vars, layer_vars, genome_vars, bond_vars, replay_vars, force_vars, control_vars>>

\* update_cell_graph, first step.
AddChildren ==
    /\ pc = "controls"
    /\ index > Len(cell_graph.nodes)
    /\ \E iteration \in Orders(broken_bond_handles) :
         cell_graph' = update_cell_graph(cell_graph, new_children, iteration,
                                         dead_cell_handles, 1)
    /\ pc' = "remove_bonds"
    /\ stage_start' = cell_graph
    /\ UNCHANGED <<sunlight, index, changes_layers, new_children, broken_bond_handles,
                   dead_cell_handles, ticks, tick_start, executed>>
    /\ UNCHANGED <<budget_vars, layer_vars, genome_vars, bond_vars, replay_vars, force_vars, control_vars>>

\* update_cell_graph, second step.
RemoveBonds ==
    /\ pc = "remove_bonds"
    /\ \E iteration \in Orders(broken_bond_handles) :
         cell_graph' = update_cell_graph(cell_graph, new_children, iteration,
                                         dead_cell_handles, 2)
    /\ pc' = "remove_nodes"
    /\ stage_start' = cell_graph
    /\ UNCHANGED <<sunlight, index, changes_layers, new_children, broken_bond_handles,
                   dead_cell_handles, ticks, tick_start, executed>>
    /\ UNCHANGED <<budget_vars, layer_vars, genome_vars, bond_vars, replay_vars, force_vars, control_vars>>

\* update_cell_graph, third step.
RemoveDeadCells ==
    /\ pc = "remove_nodes"
    /\ \E iteration \in Orders(broken_bond_handles) :
         cell_graph' = update_cell_graph(cell_graph, new_children, iteration,
                                         dead_cell_handles, 3)
    /\ pc' = "tick_cells"
    /\ stage_start' = cell_graph
    /\ UNCHANGED <<sunlight, index, changes_layers, new_children, broken_bond_handles,
                   dead_cell_handles, ticks, tick_start, executed>>
    /\ UNCHANGED <<budget_vars, layer_vars, genome_vars, bond_vars, replay_vars, force_vars, control_vars>>

\* World::tick_cells; tick returns.
TickCells ==
    /\ pc = "tick_cells"
    /\ cell_graph' = tick_cells(cell_graph)
    /\ pc' = "idle"
    /\ ticks' = ticks + 1
    /\ stage_start' = cell_graph
    /\ UNCHANGED <<sunlight, index, changes_layers, new_children, broken_bond_handles,
                   dead_cell_handles, tick_start, executed>>
    /\ UNCHANGED <<budget_vars, layer_vars, genome_vars, bond_vars, replay_vars, force_vars, control_vars>>

Next ==
    \/ ApplyInfluences
    \/ ProcessCellBondEnergy
    \/ RunCellControl
    \/ AddChildren
    \/ RemoveBonds
    \/ RemoveDeadCells
    \/ TickCells

Spec == Init /\ [][Next]_vars

\* The ticks of a world of moving cells.
SpecMotion == InitMotion /\ [][Next]_vars

\* Worlds whose bonds the builder is given as any list of pairs: chains,
\* two bonds from one first cell, two bonds to one second cell, a cycle.
BuiltPairLists ==
    {<<>>, <<<<0, 1>>>>, <<<<0, 1>>, <<1, 2>>>>, <<<<0, 1>>, <<0, 2>>>>,
     <<<<0, 1>>, <<2, 1>>>>, <<<<0, 1>>, <<1, 2>>, <<2, 0>>>>}

BuiltCells ==
    {cell_new(<<BondingLayer>>, 10,
              <<retain_bond_request(0, 0, TRUE), retain_bond_request(0, 1, TRUE),
                donation_energy_request(0, 1, 2)>>),
     cell_new(<<BondingLayer>>, 10,
              <<retain_bond_request(0, 0, TRUE), donation_energy_request(0, 2, 3)>>),
     cell_new(<<BondingLayer>>, 0, <<>>),
     cell_new(<<DeadLayer>>, 0, <<>>)}

InitBuilt ==
    /\ NoBudgetCall
    /\ \E cells \in [1 .. MaxInitCells -> BuiltCells] :
         \E index_pairs \in BuiltPairLists :
           cell_graph = with_bonds(with_cells(EmptyGraph, cells, 1), index_pairs, 1)
    /\ sunlight = 1
    /\ pc = "idle"
    /\ index = 0
    /\ changes_layers = 0
    /\ new_children = <<>>
    /\ broken_bond_handles = {}
    /\ dead_cell_handles = <<>>
    /\ ticks = 0
    /\ tick_start = cell_graph
    /\ stage_start = cell_graph
    /\ executed = <<>>
    /\ NoLayer
    /\ NoGenome
    /\ NoBonds
    /\ NoReplay
    /\ NoForces
    /\ NoControls

\* The ticks of a world built with any of the lists of pairs.
SpecBuilt == InitBuilt /\ [][Next]_vars

(***************************************************************************)
(* The cell graph on its own.  Inside World::tick every bond of a dead     *)
(* cell is already among the broken bonds when remove_nodes runs, so the   *)
(* cascade of remove_nodes is exercised by calling it on the graph         *)
(* between ticks, with one or two handles, as a last step.                 *)
(***************************************************************************)
RemoveNodesCall ==
    /\ pc = "idle"
    /\ \E h1, h2 \in NodeHandles(cell_graph) :
         /\ h1 <= h2
         /\ dead_cell_handles' = IF h1 = h2 THEN <<h1>> ELSE <<h1, h2>>
         /\ cell_graph' = remove_nodes(cell_graph, {h1, h2})
    /\ pc' = "removed"
    /\ stage_start' = cell_graph
    /\ UNCHANGED <<sunlight, index, changes_layers, new_children, broken_bond_handles,
                   ticks, tick_start, executed>>
    /\ UNCHANGED <<budget_vars, layer_vars, genome_vars, bond_vars, replay_vars, force_vars, control_vars>>

NextGraph ==
    \/ Next
    \/ RemoveNodesCall

SpecGraph == Init /\ [][NextGraph]_vars

(***************************************************************************)
(* Two worlds built alike, ticked side by side.  A tick is one step; the   *)
(* HashSet of broken bonds of each world iterates in an order of its own.  *)
(***************************************************************************)
RECURSIVE run_cell_controls_fold(_, _, _)
run_cell_controls_fold(st, i, layers_of_changes) ==
    IF i > Len(st.graph.nodes) \/ st.panicked THEN st
    ELSE LET cell == st.graph.nodes[i]
             rc == run_control(cell, layers_of_changes)
             eb == execute_bond_requests(rc.cell, st.graph.edges, rc.bond_requests,
                                         st.new_children, st.broken_bond_handles)
         IN IF rc.panicked \/ eb.panicked THEN [st EXCEPT !.panicked = TRUE]
            ELSE run_cell_controls_fold(
                     [graph |-> [st.graph EXCEPT !.nodes[i] = rc.cell, !.edges = eb.edges],
                      new_children |-> eb.new_children,
                      broken_bond_handles |-> eb.broken_bond_handles,
                      dead_cell_handles |->
                          IF ~cell_is_alive(rc.cell)
                          THEN Append(st.dead_cell_handles, cell.node_handle)
                          ELSE st.dead_cell_handles,
                      panicked |-> FALSE],
                     i + 1, layers_of_changes)

\* World::run_cell_controls up to its call of update_cell_graph: the closure
\* on every cell in storage order.
run_cell_controls(graph, layers_of_changes) ==
    run_cell_controls_fold([graph |-> graph, new_children |-> <<>>,
                            broken_bond_handles |-> {}, dead_cell_handles |-> <<>>,
                            panicked |-> FALSE],
                           1, layers_of_changes)

\* World::tick up to the call of update_cell_graph.
tick_to_update(graph, light) ==
    LET r == process_cell_bond_energy(apply_influences(graph, light))
    IN IF r.panicked
       THEN [graph |-> graph, new_children |-> <<>>, broken_bond_handles |-> {},
             dead_cell_handles |-> <<>>, panicked |-> TRUE]
       ELSE run_cell_controls(r.graph, new_world_changes(graph))

\* World::tick from the call of update_cell_graph on, with the order in
\* which the HashSet of broken bonds iterates.
tick_from_update(st, iteration) ==
    LET g1 == update_cell_graph(st.graph, st.new_children, iteration,
                                st.dead_cell_handles, 1)
        g2 == update_cell_graph(g1, st.new_children, iteration, st.dead_cell_handles, 2)
        g3 == update_cell_graph(g2, st.new_children, iteration, st.dead_cell_handles, 3)
    IN tick_cells(g3)

InitReplay ==
    /\ NoBudgetCall
    /\ \E n \in 1 .. MaxInitCells :
         \E cells \in [1 .. n -> InitCells] :
           \E nb \in 0 .. (n - 1) :
             \E ng \in 0 .. (IF nb = 0 THEN 0 ELSE nb - 1) :
               cell_graph = with_angle_gussets(
                                with_bonds(with_cells(EmptyGraph, cells, 1),
                                           ChainPairs(nb), 1),
                                ChainPairs(ng), 1)
    /\ sunlight = 1
    /\ pc = "idle"
    /\ index = 0
    /\ changes_layers = 0
    /\ new_children = <<>>
    /\ broken_bond_handles = {}
    /\ dead_cell_handles = <<>>
    /\ ticks = 0
    /\ tick_start = cell_graph
    /\ stage_start = cell_graph
    /\ executed = <<>>
    /\ NoLayer
    /\ NoGenome
    /\ NoBonds
    /\ NoForces
    /\ NoControls
    /\ replay_graph = cell_graph
    /\ sorted_bond_handles = <<>>

\* World::tick on both worlds.
TickBoth ==
    /\ pc = "idle"
    /\ ticks < MaxTicks
    /\ LET st1 == tick_to_update(cell_graph, sunlight)
           st2 == tick_to_update(replay_graph, sunlight)
       IN IF st1.panicked \/ st2.panicked
          THEN /\ pc' = "panicked"
               /\ UNCHANGED <<cell_graph, replay_graph, sorted_bond_handles, ticks,
                              tick_start, stage_start>>
          ELSE \E iteration1 \in Orders(st1.broken_bond_handles),
                  iteration2 \in Orders(st2.broken_bond_handles) :
                 /\ cell_graph' = tick_from_update(st1, iteration1)
                 /\ replay_graph' = tick_from_update(st2, iteration2)
                 /\ sorted_bond_handles' =
                        [iterations |-> <<iteration1, iteration2>>,
                         sorted |-> <<sort_unstable(iteration1), sort_unstable(iteration2)>>]
                 /\ pc' = "idle"
                 /\ ticks' = ticks + 1
                 /\ tick_start' = cell_graph
                 /\ stage_start' = st1.graph
    /\ UNCHANGED <<sunlight, index, changes_layers, new_children, broken_bond_handles,
                   dead_cell_handles, executed>>
    /\ UNCHANGED <<budget_vars, layer_vars, genome_vars, bond_vars, force_vars, control_vars>>

NextReplay == TickBoth

SpecReplay == InitReplay /\ [][NextReplay]_vars

(***************************************************************************)
(* A layer on its own (evo_domain/src/biology/layers.rs): any of a few     *)
(* layers, and a few calls of damage, after_influences,                    *)
(* cost_control_request and execute_control_request with any of a few      *)
(* arguments.  A call that panics is the last one.                         *)
(***************************************************************************)
NoWorld ==
    /\ cell_graph = EmptyGraph
    /\ sunlight = 0
    /\ pc = "idle"
    /\ index = 0
    /\ changes_layers = 0
    /\ new_children = <<>>
    /\ broken_bond_handles = {}
    /\ dead_cell_handles = <<>>
    /\ ticks = 0
    /\ tick_start = EmptyGraph
    /\ stage_start = EmptyGraph
    /\ executed = <<>>

\* Healing costs energy; every tick and every unit of overlap take one unit
\* of health.
FRAGILE_HEALTH_PARAMETERS ==
    [healing_energy_delta |-> -1,
     entropic_damage_health_delta |-> -1,
     overlap_damage_health_delta |-> -1]

\* Growth and shrinkage are limited to half of the area.
LIMITED_RESIZE_PARAMETERS ==
    [growth_energy_delta |-> -1,
     max_growth_rate |-> FracOne \div 2,
     shrinkage_energy_delta |-> 0,
     max_shrinkage_rate |-> FracOne \div 2]

LiveLayers ==
    {with_resize_parameters(
         with_health_parameters(NewCellLayer(2, 2, "Null"), FRAGILE_HEALTH_PARAMETERS),
         COSTLY_RESIZE_PARAMETERS),
     with_resize_parameters(NewCellLayer(4, 1, "Null"), LIMITED_RESIZE_PARAMETERS),
     with_health_parameters(PhotoLayer, FRAGILE_HEALTH_PARAMETERS),
     with_health_parameters(NewCellLayer(1, 1, "Thruster"), FRAGILE_HEALTH_PARAMETERS),
     BondingLayer}

\* The layers as built, with any health given to with_health, or made dead.
InitLayers ==
    {with_health(built, health) : built \in LiveLayers, health \in 0 .. HealthOne}
        \cup {dead(built) : built \in LiveLayers}

\* The requests given to the layer: healing, resize and the channels 2 to 5
\* of the specialty.
LayerRequests ==
    {healing_request(0, delta_health) : delta_health \in (-1) .. HealthOne}
        \cup {resize_request(0, delta_area) : delta_area \in {-3, -1, 1, 2}}
        \cup {ControlRequest(0, channel_index, 1, value) :
                  channel_index \in
                      RETAIN_BOND_CHANNEL_INDEX .. (DONATION_ENERGY_CHANNEL_INDEX + 1),
                  value \in {0, 2}}

LayerFractions == {0, FracOne \div 2, FracOne}

InitLayer ==
    /\ NoBudgetCall
    /\ NoWorld
    /\ layer \in InitLayers
    /\ layer_call = NoCall
    /\ layer_calls = 0
    /\ died = FALSE
    /\ NoGenome
    /\ NoBonds
    /\ NoReplay
    /\ NoForces
    /\ NoControls

\* What a call on the layer leaves in layer_call: the layer before the call,
\* the arguments of the call, what it returned or left in its out
\* parameters, and whether it panicked.  The fields a call does not have
\* keep the values given here.
LayerCall(op, panicked) ==
    [op |-> op, before |-> layer, request |-> DUMMY_CONTROL_REQUEST,
     budgeted_fraction |-> 0, light_intensity |-> 0, overlaps |-> <<>>,
     health_loss |-> 0, energy |-> 0, force |-> ZERO_FORCE, energy_delta |-> 0,
     bond_requests |-> NONE_BOND_REQUESTS, changes |-> CellChanges_new(1),
     panicked |-> panicked]

LayerCallAllowed ==
    /\ layer_calls < MaxLayerCalls
    /\ ~layer_call.panicked
    /\ layer_calls' = layer_calls + 1
    /\ UNCHANGED <<budget_vars, world_vars, genome_vars, bond_vars, replay_vars, force_vars, control_vars>>

\* CellLayer::damage
LayerDamage ==
    /\ LayerCallAllowed
    /\ \E health_loss \in (-1) .. HealthOne :
         LET panicked == layer.brain = "Living" /\ damage_panics(health_loss)
             damaged == IF panicked THEN layer ELSE damage(layer, health_loss)
         IN /\ layer' = damaged
            /\ died' = (died \/ (layer.brain = "Living" /\ ~panicked /\ damaged.health = 0))
            /\ layer_call' = [LayerCall("damage", panicked) EXCEPT
                                  !.health_loss = health_loss]

\* CellLayer::after_influences
LayerAfterInfluences ==
    /\ LayerCallAllowed
    /\ \E light_intensity \in {0, 1}, overlaps \in {<<>>, <<1>>, <<1, 1>>} :
         LET r == layer_after_influences(layer, light_intensity, overlaps)
         IN /\ layer' = r.layer
            /\ died' = (died \/ (layer.brain = "Living" /\ r.layer.health = 0))
            /\ layer_call' = [LayerCall("after_influences", FALSE) EXCEPT
                                  !.light_intensity = light_intensity,
                                  !.overlaps = overlaps,
                                  !.energy = r.energy,
                                  !.force = r.force]

\* CellLayer::cost_control_request
LayerCostControlRequest ==
    /\ LayerCallAllowed
    /\ \E request \in LayerRequests :
         LET panicked == cost_control_request_panics(layer, request)
         IN /\ layer_call' = [LayerCall("cost", panicked) EXCEPT
                                  !.request = request,
                                  !.energy_delta =
                                      IF panicked THEN 0
                                      ELSE cost_control_request(layer, request).energy_delta]
            /\ UNCHANGED <<layer, died>>

\* CellLayer::execute_control_request with fresh bond requests and a fresh
\* CellChanges of one layer.
LayerExecuteControlRequest ==
    /\ LayerCallAllowed
    /\ \E request \in LayerRequests, budgeted_fraction \in LayerFractions :
         LET energy_delta == IF cost_control_request_panics(layer, request) THEN 0
                             ELSE cost_control_request(layer, request).energy_delta
             st == execute_control_request(
                       [layers |-> <<layer>>,
                        bond_requests |-> NONE_BOND_REQUESTS,
                        changes |-> CellChanges_new(1),
                        panicked |-> FALSE],
                       [control_request |-> request,
                        energy_delta |-> energy_delta,
                        budgeted_fraction |-> budgeted_fraction],
                       1)
         IN /\ layer' = IF st.panicked THEN layer ELSE st.layers[1]
            /\ layer_call' = [LayerCall("execute", st.panicked) EXCEPT
                                  !.request = request,
                                  !.budgeted_fraction = budgeted_fraction,
                                  !.energy_delta = energy_delta,
                                  !.bond_requests = st.bond_requests,
                                  !.changes = st.changes]
            /\ UNCHANGED died

NextLayer ==
    \/ LayerDamage
    \/ LayerAfterInfluences
    \/ LayerCostControlRequest
    \/ LayerExecuteControlRequest

SpecLayer == InitLayer /\ [][NextLayer]_vars

(***************************************************************************)
(* The genome and its neural net (evo_domain/src/biology/genome.rs).       *)
(* Coefficients and node values are integers.  A transfer function is      *)
(* named; the ones here are TransferFn::IDENTITY and the plus_one of the   *)
(* tests (the sigmoid has no integer values).  A vector indexed from 0 in  *)
(* the code is a sequence indexed from 1.                                  *)
(***************************************************************************)
BiasOp(value_index, bias) ==
    [kind |-> "Bias", value_index |-> value_index, bias |-> bias]

ConnectionOp(from_value_index, to_value_index, weight) ==
    [kind |-> "Connection", from_value_index |-> from_value_index,
     to_value_index |-> to_value_index, weight |-> weight]

TransferOp(value_index, transfer_fn) ==
    [kind |-> "Transfer", value_index |-> value_index, transfer_fn |-> transfer_fn]

\* SparseNeuralNetGenome::new
genome_new(transfer_fn) ==
    [ops |-> <<>>, transfer_fn |-> transfer_fn, num_nodes |-> 0]

\* SparseNeuralNetGenome::grow_num_nodes_if_needed
grow_num_nodes_if_needed(num_nodes, new_index) == Max(num_nodes, new_index + 1)

RECURSIVE connect_fold(_, _, _, _)
connect_fold(g, to_value_index, from_value_weights, i) ==
    IF i > Len(from_value_weights) THEN g
    ELSE connect_fold(
             [g EXCEPT !.num_nodes = grow_num_nodes_if_needed(@, from_value_weights[i][1]),
                       !.ops = Append(@, ConnectionOp(from_value_weights[i][1],
                                                      to_value_index,
                                                      from_value_weights[i][2]))],
             to_value_index, from_value_weights, i + 1)

\* SparseNeuralNetGenome::connect_node: a Bias op, a Connection op for
\* every input in the order given, a Transfer op.
connect_node(g, to_value_index, bias, from_value_weights) ==
    LET g1 == [g EXCEPT !.num_nodes = grow_num_nodes_if_needed(@, to_value_index),
                        !.ops = Append(@, BiasOp(to_value_index, bias))]
        g2 == connect_fold(g1, to_value_index, from_value_weights, 1)
    IN [g2 EXCEPT !.ops = Append(@, TransferOp(to_value_index, g.transfer_fn))]

\* TransferFn::call
transfer_fn_call(transfer_fn, value) ==
    IF transfer_fn = "PLUS_ONE" THEN value + 1 ELSE value

\* Variant: a Bias op adds the bias to the value the node has.
op_run_bias_added(op, node_values) ==
    IF op.kind = "Bias"
    THEN [node_values EXCEPT ![op.value_index + 1] = @ + op.bias]
    ELSE IF op.kind = "Connection"
    THEN [node_values EXCEPT ![op.to_value_index + 1] =
              @ + op.weight * node_values[op.from_value_index + 1]]
    ELSE [node_values EXCEPT ![op.value_index + 1] = transfer_fn_call(op.transfer_fn, @)]

\* Op::run
op_run(op, node_values) ==
    IF op.kind = "Bias"
    THEN [node_values EXCEPT ![op.value_index + 1] = op.bias]
    ELSE IF op.kind = "Connection"
    THEN [node_values EXCEPT ![op.to_value_index + 1] =
              @ + op.weight * node_values[op.from_value_index + 1]]
    ELSE [node_values EXCEPT ![op.value_index + 1] = transfer_fn_call(op.transfer_fn, @)]

RECURSIVE run_fold(_, _, _)
run_fold(ops, i, node_values) ==
    IF i > Len(ops) THEN node_values
    ELSE run_fold(ops, i + 1, op_run(ops[i], node_values))

RECURSIVE run_backwards_fold(_, _, _)
run_backwards_fold(ops, i, node_values) ==
    IF i = 0 THEN node_values
    ELSE run_backwards_fold(ops, i - 1, op_run(ops[i], node_values))

\* Variant: the ops run from the last to the first.
genome_run_backwards(g, node_values) ==
    run_backwards_fold(g.ops, Len(g.ops), node_values)

\* SparseNeuralNetGenome::run: every op in order on the node values.
genome_run(g, node_values) == run_fold(g.ops, 1, node_values)

\* SparseNeuralNet::new: a value 0 for every node.
nnet_new(g) ==
    [genome |-> g, node_values |-> [i \in 1 .. g.num_nodes |-> 0]]

\* SparseNeuralNet::set_node_value
set_node_value(net, value_index, value) ==
    [net EXCEPT !.node_values[value_index + 1] = value]

\* SparseNeuralNet::run
nnet_run(net) ==
    [net EXCEPT !.node_values = genome_run(net.genome, net.node_values)]

\* MutationParameters::NO_MUTATION.  A probability is 0 or 1 here.
NO_MUTATION ==
    [weight_mutation_probability |-> 0, weight_mutation_stdev |-> 0]

\* Parameters with probability 0 and a standard deviation.
NEVER_MUTATED == [weight_mutation_probability |-> 0, weight_mutation_stdev |-> 1]

\* Parameters with probability 1 and a standard deviation.
ALWAYS_MUTATED == [weight_mutation_probability |-> 1, weight_mutation_stdev |-> 1]

\* SeededMutationRandomness::should_mutate_this_weight: gen_bool of the
\* probability, which is false for 0 and true for 1.
should_mutate_this_weight(mutation_parameters) ==
    mutation_parameters.weight_mutation_probability = 1

\* Variant: the perturbation does not depend on the weight.
mutate_weight_by_the_sample_alone(mutation_parameters, weight, gaussian) ==
    IF mutation_parameters.weight_mutation_probability # 1 THEN weight
    ELSE weight + gaussian * mutation_parameters.weight_mutation_stdev

\* Variant: every weight is mutated.
mutate_weight_whatever_the_probability(mutation_parameters, weight, gaussian) ==
    weight + gaussian * mutation_parameters.weight_mutation_stdev * weight

\* SeededMutationRandomness::mutate_weight, with the sample of the standard
\* normal distribution that the generator yields.
mutate_weight(mutation_parameters, weight, gaussian) ==
    IF ~should_mutate_this_weight(mutation_parameters) THEN weight
    ELSE weight + gaussian * mutation_parameters.weight_mutation_stdev * weight

\* Op::copy_with_mutated_weight
copy_with_mutated_weight(op, mutation_parameters, gaussian) ==
    IF op.kind = "Bias"
    THEN BiasOp(op.value_index, mutate_weight(mutation_parameters, op.bias, gaussian))
    ELSE IF op.kind = "Connection"
    THEN ConnectionOp(op.from_value_index, op.to_value_index,
                      mutate_weight(mutation_parameters, op.weight, gaussian))
    ELSE TransferOp(op.value_index, op.transfer_fn)

\* SparseNeuralNetGenome::spawn with copy_with_mutated_weights; gaussians
\* holds, for every op, the sample the generator yields if the op's weight
\* is mutated.
genome_spawn(g, mutation_parameters, gaussians) ==
    [ops |-> [i \in DOMAIN g.ops |->
                 copy_with_mutated_weight(g.ops[i], mutation_parameters, gaussians[i])],
     transfer_fn |-> g.transfer_fn,
     num_nodes |-> g.num_nodes]

\* The arguments of a call of connect_node.
ConnectCall(to_value_index, bias, from_value_weights) ==
    [to_value_index |-> to_value_index, bias |-> bias,
     from_value_weights |-> from_value_weights]

\* The genomes built: the recurrent net, the two-layer and the three-layer
\* net of the tests (with integer coefficients), a node connected to
\* itself, a node connected twice.
GenomeScripts ==
    {<<ConnectCall(1, 0, <<<<0, 1>>, <<2, 2>>>>), ConnectCall(2, 0, <<<<1, 1>>>>)>>,
     <<ConnectCall(2, 1, <<<<0, 1>>>>), ConnectCall(3, 0, <<<<0, 3>>, <<1, 1>>>>)>>,
     <<ConnectCall(1, 1, <<<<0, 1>>>>), ConnectCall(2, 0, <<<<1, 2>>>>)>>,
     <<ConnectCall(1, 1, <<<<1, 1>>, <<0, 1>>>>)>>,
     <<ConnectCall(1, 2, <<>>), ConnectCall(1, 0, <<<<0, 1>>>>)>>}

TransferFns == {"IDENTITY", "PLUS_ONE"}

\* The values given to set_node_value and the samples of the generator.
NodeValues == {0, 1}

Gaussians == {-1, 1}

\* The nodes that no connect_node call has as its target.
InputIndexes(calls, num_nodes) ==
    {value_index \in 0 .. (num_nodes - 1) :
        \A c \in DOMAIN calls : calls[c].to_value_index # value_index}

InitGenome ==
    /\ NoBudgetCall
    /\ NoWorld
    /\ NoLayer
    /\ \E transfer_fn \in TransferFns : genome = genome_new(transfer_fn)
    /\ nnet = <<>>
    /\ net_log = [calls |-> <<>>, runs |-> <<>>]
    /\ spawned = <<>>
    /\ NoBonds
    /\ NoReplay
    /\ NoForces
    /\ NoControls

GenomeUnchanged ==
    UNCHANGED <<budget_vars, world_vars, layer_vars, bond_vars, replay_vars, force_vars, control_vars>>

\* SparseNeuralNetGenome::connect_node, the next call of a script.
ConnectNode ==
    /\ nnet = <<>>
    /\ spawned = <<>>
    /\ \E script \in GenomeScripts :
         /\ Len(net_log.calls) < Len(script)
         /\ SubSeq(script, 1, Len(net_log.calls)) = net_log.calls
         /\ LET call == script[Len(net_log.calls) + 1]
            IN /\ genome' = connect_node(genome, call.to_value_index, call.bias,
                                         call.from_value_weights)
               /\ net_log' = [net_log EXCEPT !.calls = Append(@, call)]
    /\ UNCHANGED <<nnet, spawned>>
    /\ GenomeUnchanged

\* SparseNeuralNet::new
NewNet ==
    /\ nnet = <<>>
    /\ spawned = <<>>
    /\ nnet' = nnet_new(genome)
    /\ UNCHANGED <<genome, net_log, spawned>>
    /\ GenomeUnchanged

\* SparseNeuralNet::set_node_value on an input node.
SetNodeValue ==
    /\ nnet # <<>>
    /\ \E value_index \in InputIndexes(net_log.calls, genome.num_nodes),
          value \in NodeValues :
         nnet' = set_node_value(nnet, value_index, value)
    /\ UNCHANGED <<genome, net_log, spawned>>
    /\ GenomeUnchanged

\* SparseNeuralNet::run
Run ==
    /\ nnet # <<>>
    /\ Len(net_log.runs) < MaxRuns
    /\ nnet' = nnet_run(nnet)
    /\ net_log' = [net_log EXCEPT !.runs =
                       Append(@, [before |-> nnet.node_values,
                                  after |-> nnet'.node_values])]
    /\ UNCHANGED <<genome, spawned>>
    /\ GenomeUnchanged

\* SparseNeuralNetGenome::spawn
Spawn ==
    /\ nnet = <<>>
    /\ spawned = <<>>
    /\ genome.ops # <<>>
    /\ \E mutation_parameters \in {NO_MUTATION, NEVER_MUTATED, ALWAYS_MUTATED},
          gaussians \in [DOMAIN genome.ops -> Gaussians] :
         spawned' = [genome |-> genome_spawn(genome, mutation_parameters, gaussians),
                     mutation_parameters |-> mutation_parameters]
    /\ UNCHANGED <<genome, nnet, net_log>>
    /\ GenomeUnchanged

NextGenome ==
    \/ ConnectNode
    \/ NewNet
    \/ SetNodeValue
    \/ Run
    \/ Spawn

SpecGenome == InitGenome /\ [][NextGenome]_vars

(***************************************************************************)
(* Bonds on their own (evo_domain/src/physics/bond.rs): three bonds of a   *)
(* graph of three nodes, and calls of Bond::new, AngleGusset::new,         *)
(* set_energy_from_cell and claim_energy_for_cell with any of a few        *)
(* arguments.  A call that panics is the last one.                         *)
(***************************************************************************)
BenchNodeHandles == {1, 2, 3}

BenchEnergies == {1, 2}

\* What a call that panics returns.
NoValue == <<>>

\* The bonds 1-2, 2-3 and 1-3 with the edge handles the graph gave them.
BenchBonds ==
    <<[bond_new(1, 2) EXCEPT !.edge_handle = 1],
      [bond_new(2, 3) EXCEPT !.edge_handle = 2],
      [bond_new(1, 3) EXCEPT !.edge_handle = 3]>>

InitBond ==
    /\ NoBudgetCall
    /\ NoWorld
    /\ NoLayer
    /\ NoGenome
    /\ bench_bonds = BenchBonds
    /\ bond_call = NoCall
    /\ NoReplay
    /\ NoForces
    /\ NoControls

BondCallAllowed ==
    /\ ~bond_call.panicked
    /\ UNCHANGED <<budget_vars, world_vars, layer_vars, genome_vars, replay_vars, force_vars, control_vars>>

\* What a call leaves in bond_call: its arguments (node handles, positions
\* of bonds in bench_bonds, an energy), the bonds before it, what it
\* returned and whether it panicked.
BondCall(op, handles, bonds, energy, value, panicked) ==
    [op |-> op, handles |-> handles, bonds |-> bonds, energy |-> energy,
     before |-> bench_bonds, value |-> value, panicked |-> panicked]

\* Bond::new
BondNewCall ==
    /\ BondCallAllowed
    /\ \E node1_handle, node2_handle \in BenchNodeHandles :
         LET panicked == bond_new_panics(node1_handle, node2_handle)
         IN bond_call' = BondCall("bond_new", <<node1_handle, node2_handle>>, <<>>, 0,
                                  IF panicked THEN NoValue
                                  ELSE bond_new(node1_handle, node2_handle),
                                  panicked)
    /\ UNCHANGED bench_bonds

\* AngleGusset::new
GussetNewCall ==
    /\ BondCallAllowed
    /\ \E b1, b2 \in DOMAIN bench_bonds :
         LET panicked == gusset_new_panics(bench_bonds[b1], bench_bonds[b2])
         IN bond_call' = BondCall("gusset_new", <<>>, <<b1, b2>>, 0,
                                  IF panicked THEN NoValue
                                  ELSE gusset_new(bench_bonds[b1], bench_bonds[b2]),
                                  panicked)
    /\ UNCHANGED bench_bonds

\* Bond::set_energy_from_cell
SetEnergyCall ==
    /\ BondCallAllowed
    /\ \E b \in DOMAIN bench_bonds, cell_handle \in BenchNodeHandles,
          energy \in BenchEnergies :
         LET r == set_energy_from_cell(bench_bonds[b], cell_handle, energy)
         IN /\ bench_bonds' = [bench_bonds EXCEPT ![b] = r.bond]
            /\ bond_call' = BondCall("set_energy_from_cell", <<cell_handle>>, <<b>>, energy,
                                     NoValue, r.panicked)

\* Bond::claim_energy_for_cell
ClaimEnergyCall ==
    /\ BondCallAllowed
    /\ \E b \in DOMAIN bench_bonds, cell_handle \in BenchNodeHandles :
         LET r == claim_energy_for_cell(bench_bonds[b], cell_handle)
         IN /\ bench_bonds' = [bench_bonds EXCEPT ![b] = r.bond]
            /\ bond_call' = BondCall("claim_energy_for_cell", <<cell_handle>>, <<b>>, 0,
                                     IF r.panicked THEN NoValue ELSE r.ret_energy,
                                     r.panicked)

NextBond ==
    \/ BondNewCall
    \/ GussetNewCall
    \/ SetEnergyCall
    \/ ClaimEnergyCall

SpecBond == InitBond /\ [][NextBond]_vars

(***************************************************************************)
(* Forces on their own: the wall collision force, the drag and the bond    *)
(* strains are functions of a few f64s, so they are called here on floats  *)
(* picked by hand, among them those of the repository's tests.             *)
(***************************************************************************)
sqr(x) == f64_mul(x, x)

RECURSIVE floor_sqrt(_, _, _)
\* The greatest whole number whose square is at most n, by bisection between
\* lo and hi, where lo * lo <= n < hi * hi.
floor_sqrt(n, lo, hi) ==
    IF hi - lo <= 1 THEN lo
    ELSE LET mid == (lo + hi) \div 2
         IN IF mid * mid <= n THEN floor_sqrt(n, mid, hi) ELSE floor_sqrt(n, lo, mid)

\* f64::sqrt for 0 <= x and x * FloatOne < 2^30: the float nearest to the
\* square root.
f64_sqrt(x) ==
    LET n == x * FloatOne
        root == floor_sqrt(n, 0, 2^15)
        ulp == 2^f64_exponent(root, 1, 0)
        q == root \div ulp
        odd == (2 * q + 1) * ulp
    IN IF odd * odd < 4 * n \/ (odd * odd = 4 * n /\ q % 2 = 1) THEN (q + 1) * ulp ELSE q * ulp

\* Variant: the bounce is by the overlap, whatever the velocity.
x_or_y_collision_force_by_overlap(mass, velocity, overlap) ==
    f64_mul(-mass, f64_add(velocity, overlap))

x_or_y_collision_force(mass, velocity, overlap) ==
    LET v == IF overlap > 0 THEN Max(velocity, overlap)
             ELSE IF overlap < 0 THEN Min(velocity, overlap)
             ELSE -velocity
    IN f64_mul(-mass, f64_add(velocity, v))

collision_force(mass, velocity, overlap) ==
    Force(x_or_y_collision_force(mass, velocity[1], overlap[1]),
          x_or_y_collision_force(mass, velocity[2], overlap[2]))

instantaneous_abs_drag(viscosity, radius, velocity) ==
    f64_mul(f64_mul(viscosity, radius), sqr(velocity))

abs_drag_that_will_stop_the_cell(mass, velocity, subtick_duration) ==
    f64_div(f64_mul(mass, Abs(velocity)), subtick_duration)

calc_drag(viscosity, mass, radius, velocity, subtick_duration) ==
    f64_mul(-signum(velocity),
            Min(instantaneous_abs_drag(viscosity, radius, velocity),
                abs_drag_that_will_stop_the_cell(mass, velocity, subtick_duration)))

\* DragForce::calc_force
drag_calc_force(viscosity, mass, radius, velocity, subtick_duration) ==
    Force(calc_drag(viscosity, mass, radius, velocity[1], subtick_duration),
          calc_drag(viscosity, mass, radius, velocity[2], subtick_duration))

\* exert_forces_for_one_tick on floats: v + (F / m) * 1, on each axis.
exert_force_for_one_tick(mass, velocity, force) ==
    <<f64_add(velocity[1], f64_mul(f64_div(force[1], mass), FloatOne)),
      f64_add(velocity[2], f64_mul(f64_div(force[2], mass), FloatOne))>>

\* Displacement's unary minus.
neg(displacement) == <<-displacement[1], -displacement[2]>>

calc_bond_strain(circle1, circle2) ==
    LET x_offset == f64_add(circle1.center[1], -circle2.center[1])
        y_offset == f64_add(circle1.center[2], -circle2.center[2])
        just_touching_center_sep == f64_add(circle1.radius, circle2.radius)
        center_sep == f64_sqrt(f64_add(sqr(x_offset), sqr(y_offset)))
        overlap_mag == f64_add(just_touching_center_sep, -center_sep)
    IN IF center_sep = 0 THEN <<0, 0>>
       ELSE <<f64_mul(f64_div(x_offset, center_sep), overlap_mag),
              f64_mul(f64_div(y_offset, center_sep), overlap_mag)>>

\* Variant: both ends of a bond are given the same strain.
calc_bond_strains_one_strain(circles, bonds) ==
    [i \in DOMAIN bonds |->
        LET strain == calc_bond_strain(circles[bonds[i][1]], circles[bonds[i][2]])
        IN <<<<bonds[i][1], strain>>, <<bonds[i][2], strain>>>>]

\* The graph is its circles, in the order of their handles, and its bonds as
\* pairs <<node1_handle, node2_handle>>.
calc_bond_strains(circles, bonds) ==
    [i \in DOMAIN bonds |->
        LET strain == calc_bond_strain(circles[bonds[i][1]], circles[bonds[i][2]])
        IN <<<<bonds[i][1], strain>>, <<bonds[i][2], neg(strain)>>>>]

SPRING_CONSTANT == FloatOne

\* BondStrain::to_force
to_force(strain) == Force(f64_mul(strain[1], SPRING_CONSTANT), f64_mul(strain[2], SPRING_CONSTANT))

RECURSIVE on_bond_forces(_, _, _)
\* The second loop of calc_bond_forces with the on_bond_force of the cells,
\* which adds the force to the net force of the node.
on_bond_forces(net_forces, strains, i) ==
    IF i > Len(strains) THEN net_forces
    ELSE LET handle == strains[i][1]
             force == to_force(strains[i][2])
         IN on_bond_forces(
                [net_forces EXCEPT ![handle] =
                    Force(f64_add(@[1], force[1]), f64_add(@[2], force[2]))],
                strains, i + 1)

\* The strains of calc_bond_forces: those of calc_bond_strains, one entry
\* for each end.
RECURSIVE flat_strains(_, _)
flat_strains(pairs, i) ==
    IF i > Len(pairs) THEN <<>> ELSE <<pairs[i][1], pairs[i][2]>> \o flat_strains(pairs, i + 1)

\* The net forces of the nodes after calc_bond_forces, from none.
calc_bond_forces(circles, bonds) ==
    on_bond_forces([h \in DOMAIN circles |-> ZERO_FORCE],
                   flat_strains(calc_bond_strains(circles, bonds), 1), 1)

\* The floats nearest to the quarters of a set of whole numbers or of pairs.
Quarters(numbers) == {f64_of(n, 4) : n \in numbers}

QuarterPairs(pairs) == {<<f64_of(p[1], 4), f64_of(p[2], 4)>> : p \in pairs}

ForceMasses == Quarters({8, 11, 13, 40})

ForceVelocities ==
    QuarterPairs({<<12, 16>>, <<4, 2>>, <<-12, -16>>, <<-4, -2>>, <<6, 5>>, <<14, -13>>,
                  <<-32, 0>>, <<8, -12>>})

ForceOverlaps ==
    QuarterPairs({<<8, 12>>, <<8, 6>>, <<-8, -12>>, <<-8, -6>>, <<8, 8>>, <<0, 0>>, <<1, -1>>})

DragViscosities == Quarters({1, 2})

DragRadii == Quarters({8, 40})

\* A body in a fluid, overlapping the walls.
BodyInputs ==
    [kind : {"body"}, mass : ForceMasses, radius : DragRadii, velocity : ForceVelocities,
     overlap : ForceOverlaps, viscosity : DragViscosities]

CircleCenters == QuarterPairs({<<0, 0>>, <<24, 32>>, <<12, 0>>, <<0, -16>>})

CircleRadii == Quarters({8, 12})

\* Two or three circles bonded in a chain.
CircleInputs ==
    UNION {[kind : {"circles"},
            circles : {[h \in 1 .. n |-> [node_handle |-> h, center |-> centers[h],
                                          radius |-> radii[h]]] :
                          centers \in [1 .. n -> CircleCenters],
                          radii \in [1 .. n -> CircleRadii]},
            bonds : {[i \in 1 .. (n - 1) |-> <<i, i + 1>>]}] : n \in 2 .. 3}

InitForces ==
    /\ NoBudgetCall
    /\ NoWorld
    /\ NoLayer
    /\ NoGenome
    /\ NoBonds
    /\ NoReplay
    /\ NoControls
    /\ force_call \in [op : {"none"}, panicked : {FALSE}, input : BodyInputs \cup CircleInputs]

ForcesUnchanged ==
    UNCHANGED <<budget_vars, world_vars, layer_vars, genome_vars, bond_vars, replay_vars, control_vars>>

\* WallCollisions::collision_force, and the velocity that the force gives
\* the body when it is the only one in a tick.
CollisionForceCall ==
    /\ force_call.op = "none"
    /\ force_call.input.kind = "body"
    /\ LET input == force_call.input
           force == collision_force(input.mass, input.velocity, input.overlap)
       IN force_call' = [force_call EXCEPT !.op = "collision_force"] @@
              [force |-> force,
               velocity |-> exert_force_for_one_tick(input.mass, input.velocity, force)]
    /\ ForcesUnchanged

\* DragForce::calc_force for a tick, and the velocity that the force gives
\* the body when it is the only one in the tick.
DragCall ==
    /\ force_call.op = "none"
    /\ force_call.input.kind = "body"
    /\ LET input == force_call.input
           force == drag_calc_force(input.viscosity, input.mass, input.radius,
                                    input.velocity, FloatOne)
       IN force_call' = [force_call EXCEPT !.op = "calc_drag"] @@
              [force |-> force,
               velocity |-> exert_force_for_one_tick(input.mass, input.velocity, force)]
    /\ ForcesUnchanged

CalcBondStrainsCall ==
    /\ force_call.op = "none"
    /\ force_call.input.kind = "circles"
    /\ force_call' = [force_call EXCEPT !.op = "calc_bond_strains"] @@
           [strains |-> calc_bond_strains(force_call.input.circles, force_call.input.bonds)]
    /\ ForcesUnchanged

CalcBondForcesCall ==
    /\ force_call.op = "none"
    /\ force_call.input.kind = "circles"
    /\ force_call' = [force_call EXCEPT !.op = "calc_bond_forces"] @@
           [strains |-> flat_strains(calc_bond_strains(force_call.input.circles,
                                                       force_call.input.bonds), 1),
            net_forces |-> calc_bond_forces(force_call.input.circles, force_call.input.bonds)]
    /\ ForcesUnchanged

NextForces ==
    \/ CollisionForceCall
    \/ DragCall
    \/ CalcBondStrainsCall
    \/ CalcBondForcesCall

SpecForces == InitForces /\ [][NextForces]_vars

(***************************************************************************)
(* Cell controls on their own: a NeuralNetBuddingControl and the controls  *)
(* spawned from it and from its descendants.  The generator of a           *)
(* SeededMutationRandomness is known by the seed it was made from and by   *)
(* how many numbers have been drawn from it since: two generators are in   *)
(* the same state when both are the same.  A seed is the root seed or the  *)
(* number drawn from a generator, known by the seed of that generator and  *)
(* by how many numbers had been drawn before it.                           *)
(***************************************************************************)
MaxControls == 5       \* controls spawned from one root, the root included

ROOT_SEED == <<0>>

\* SeededMutationRandomness::new
randomness_new(seed, mutation_parameters) ==
    [rng |-> [seed |-> seed, drawn |-> 0], mutation_parameters |-> mutation_parameters]

\* The generator after n more numbers have been drawn.
rng_after(rng, n) == [rng EXCEPT !.drawn = @ + n]

\* SeededMutationRandomness::child_seed: the number that rng.gen() yields.
child_seed(randomness) == Append(randomness.rng.seed, randomness.rng.drawn)

\* SeededMutationRandomness::spawn: the randomness made, and this one after
\* the seed has been drawn from it.
randomness_spawn(randomness) ==
    [spawned |-> randomness_new(child_seed(randomness), randomness.mutation_parameters),
     self |-> [randomness EXCEPT !.rng = rng_after(@, 1)]]

\* The sample of the standard normal distribution that a generator yields:
\* some function of its state.
standard_normal(rng) == IF (Len(rng.seed) + rng.drawn) % 2 = 0 THEN 1 ELSE -1

\* The numbers that mutate_weight draws: one in should_mutate_this_weight
\* and, when the weight is mutated, one for the sample.
draws_of_mutate_weight(mutation_parameters) ==
    IF should_mutate_this_weight(mutation_parameters) THEN 2 ELSE 1

\* The ops with a coefficient among the first n.
coefficient_ops(ops, n) == Cardinality({i \in 1 .. n : ops[i].kind # "Transfer"})

\* SparseNeuralNet::spawn with a SeededMutationRandomness: the net made,
\* and the randomness after the numbers for every coefficient have been
\* drawn from it in the order of the ops.
nnet_spawn(net, randomness) ==
    LET ops == net.genome.ops
        draws == draws_of_mutate_weight(randomness.mutation_parameters)
        gaussians == [i \in DOMAIN ops |->
                         standard_normal(rng_after(randomness.rng,
                                                   draws * coefficient_ops(ops, i - 1) + 1))]
    IN [spawned |-> nnet_new(genome_spawn(net.genome, randomness.mutation_parameters,
                                          gaussians)),
        randomness |-> [randomness EXCEPT
                           !.rng = rng_after(@, draws * coefficient_ops(ops, Len(ops)))]]

\* NeuralNetBuddingControl::new
control_new(g, randomness) == [nnet |-> nnet_new(g), randomness |-> randomness]

\* NeuralNetBuddingControl::spawn: the control made, which holds a clone of
\* the randomness of this control, and this control afterwards.
control_spawn(control) ==
    LET net == nnet_spawn(control.nnet, control.randomness)
    IN [spawned |-> [nnet |-> net.spawned, randomness |-> net.randomness],
        self |-> [control EXCEPT !.randomness = net.randomness]]

\* The genomes of the controls: the net of tests::spawn_with_mutated_weights
\* and the three-layer net, with whole coefficients.
ControlGenomes ==
    {connect_node(genome_new("IDENTITY"), 2, 1, <<<<0, 1>>, <<1, 2>>>>),
     connect_node(connect_node(genome_new("PLUS_ONE"), 1, 1, <<<<0, 1>>>>), 2, 0, <<<<1, 2>>>>)}

\* Of every control, besides the control itself: the control it was spawned
\* from (0 for the root), the randomness it was made with and the
\* randomness of its parent before and after the spawn.
InitControls ==
    /\ NoBudgetCall
    /\ NoWorld
    /\ NoLayer
    /\ NoGenome
    /\ NoBonds
    /\ NoReplay
    /\ NoForces
    /\ \E g \in ControlGenomes,
          mutation_parameters \in {NO_MUTATION, NEVER_MUTATED, ALWAYS_MUTATED} :
         LET randomness == randomness_new(ROOT_SEED, mutation_parameters)
         IN controls = <<[control |-> control_new(g, randomness), parent |-> 0,
                          made_with |-> randomness, parent_before |-> randomness,
                          parent_after |-> randomness]>>

\* CellControl::spawn on one of the controls.
ControlSpawn ==
    /\ Len(controls) < MaxControls
    /\ \E p \in DOMAIN controls :
         LET result == control_spawn(controls[p].control)
         IN controls' = Append([controls EXCEPT ![p].control = result.self],
                               [control |-> result.spawned, parent |-> p,
                                made_with |-> result.spawned.randomness,
                                parent_before |-> controls[p].control.randomness,
                                parent_after |-> result.self.randomness])
    /\ UNCHANGED <<budget_vars, world_vars, layer_vars, genome_vars, bond_vars, replay_vars, force_vars>>

NextControls == ControlSpawn

SpecControls == InitControls /\ [][NextControls]_vars

(***************************************************************************)
(* A layer and its CellLayerChanges in f64 (layers.rs): the health, area,  *)
(* density and mass of the body of a living layer with the default health  *)
(* parameters and the unlimited resize parameters, the healing and resize  *)
(* requests it executes in a tick, and the entry of the CellChanges of the *)
(* tick that collects their deltas.                                        *)
(***************************************************************************)
f64_min(x, y) == IF x <= y THEN x ELSE y

f64_max(x, y) == IF x >= y THEN x ELSE y

\* CellLayerBody::restore_health
f64_restore_health(body, delta_health) ==
    [body EXCEPT !.health = f64_add(body.health, delta_health)]

\* CellLayerBody::actual_delta_health
f64_actual_delta_health(body, requested_delta_health, budgeted_fraction) ==
    f64_min(f64_mul(budgeted_fraction, requested_delta_health),
            f64_add(FloatOne, -body.health))

\* CellLayerBody::resize
f64_resize(body, delta_area) ==
    LET area == f64_add(body.area, delta_area)
    IN [body EXCEPT !.area = area, !.mass = f64_mul(area, body.density)]

\* CellLayerBody::actual_delta_area, for a body of positive area whose
\* resize parameters set no limit to the rates.
f64_actual_delta_area(body, requested_delta_area, budgeted_fraction) ==
    f64_max(f64_mul(f64_mul(body.health, budgeted_fraction), requested_delta_area),
            -body.area)

\* Variant: the recorded change of the area is not applied.
f64_apply_changes_health_only(body, changes) ==
    [body EXCEPT !.health = f64_add(body.health, changes.health)]

\* CellLayerBody::apply_changes
f64_apply_changes(body, changes) ==
    f64_resize([body EXCEPT !.health = f64_add(body.health, changes.health)], changes.area)

\* LivingCellLayerBrain::execute_control_request for a healing or resize
\* request: the body after the request and the layer's entry of the
\* CellChanges with the delta added.
f64_execute_control_request(body, changes, channel_index, requested_value, budgeted_fraction) ==
    IF channel_index = HEALING_CHANNEL_INDEX
    THEN LET delta_health ==
                 f64_actual_delta_health(body, requested_value, budgeted_fraction)
         IN [body |-> f64_restore_health(body, delta_health),
             changes |-> [changes EXCEPT !.health = f64_add(@, delta_health)]]
    ELSE LET delta_area == f64_actual_delta_area(body, requested_value, budgeted_fraction)
         IN [body |-> f64_resize(body, delta_area),
             changes |-> [changes EXCEPT !.area = f64_add(@, delta_area)]]

\* The bodies at the start of a tick: mass is area times density.
ChangesBodies ==
    {[health |-> health, area |-> area, density |-> f64_of(1, 1),
      mass |-> f64_mul(area, f64_of(1, 1))] :
        health \in {f64_of(1, 2), f64_of(1, 8), f64_of(1, 1)},
        area \in {f64_of(1, 1), f64_of(5, 2)}}

ChangesHealings == {f64_of(1, 32), f64_of(1, 4), f64_of(3, 8)}

ChangesResizes == {f64_of(1, 16), f64_of(1, 2), f64_of(-1, 4), f64_of(-4, 1)}

ChangesFractions == {f64_of(1, 2), f64_of(1, 1)}

InitChanges ==
    /\ NoBudgetCall
    /\ NoWorld
    /\ layer \in ChangesBodies
    /\ layer_call = [op |-> "none", panicked |-> FALSE, before |-> layer,
                     changes |-> [health |-> 0, area |-> 0]]
    /\ layer_calls = 0
    /\ died = FALSE
    /\ NoGenome
    /\ NoBonds
    /\ NoReplay
    /\ NoForces
    /\ NoControls

\* One more healing request of the tick is executed on the layer.
ChangesHealing ==
    /\ layer_calls < MaxLayerCalls
    /\ \E requested \in ChangesHealings, budgeted_fraction \in ChangesFractions :
         LET r == f64_execute_control_request(layer, layer_call.changes,
                      HEALING_CHANNEL_INDEX, requested, budgeted_fraction)
         IN /\ layer' = r.body
            /\ layer_call' = [layer_call EXCEPT !.op = "execute", !.changes = r.changes]
    /\ layer_calls' = layer_calls + 1
    /\ UNCHANGED died
    /\ UNCHANGED <<budget_vars, world_vars, genome_vars, bond_vars, replay_vars, force_vars, control_vars>>

\* One more resize request of the tick is executed on the layer.
ChangesResize ==
    /\ layer_calls < MaxLayerCalls
    /\ \E requested \in ChangesResizes, budgeted_fraction \in ChangesFractions :
         LET r == f64_execute_control_request(layer, layer_call.changes,
                      RESIZE_CHANNEL_INDEX, requested, budgeted_fraction)
         IN /\ layer' = r.body
            /\ layer_call' = [layer_call EXCEPT !.op = "execute", !.changes = r.changes]
    /\ layer_calls' = layer_calls + 1
    /\ UNCHANGED died
    /\ UNCHANGED <<budget_vars, world_vars, genome_vars, bond_vars, replay_vars, force_vars, control_vars>>

NextChanges ==
    \/ ChangesHealing
    \/ ChangesResize

SpecChanges == InitChanges /\ [][NextChanges]_vars

(***************************************************************************)
(* Properties of the budgeter (SpecBudget).                                *)
(***************************************************************************)
RECURSIVE SumOfDeltas(_, _, _)
\* Sum of sign * energy_delta over the requests whose delta has that sign.
SumOfDeltas(requests, sign, i) ==
    IF i > Len(requests) THEN 0
    ELSE (IF sign * requests[i].energy_delta > 0 THEN sign * requests[i].energy_delta ELSE 0)
         + SumOfDeltas(requests, sign, i + 1)

PositiveDeltas(requests) == SumOfDeltas(requests, 1, 1)

NegativeDeltas(requests) == SumOfDeltas(requests, -1, 1)

\* The fraction the budget gave the requests that cost energy (1.0 when
\* there is none).
FractionOfExpenses(budgeted_requests) ==
    IF \E i \in DOMAIN budgeted_requests : budgeted_requests[i].energy_delta < 0
    THEN budgeted_requests[CHOOSE i \in DOMAIN budgeted_requests :
                               budgeted_requests[i].energy_delta < 0].budgeted_fraction
    ELSE FracOne

\* The energy the budget law leaves: start plus the positive deltas minus
\* the budgeted fraction of the negative ones, never below zero.
BudgetLaw(energy, budgeted_requests) ==
    Max(0, energy + PositiveDeltas(budgeted_requests)
           - RoundDiv(FractionOfExpenses(budgeted_requests)
                          * NegativeDeltas(budgeted_requests), FracOne))

\* C2: the end energy of budget_control_requests is
\* max(0, start_energy + sum of the positive deltas
\*        - budgeted_fraction * sum of the absolute negative deltas).
C2_BudgetLaw ==
    budget # NoBudget =>
        /\ Len(budget.budgeted_requests) = Len(costed_requests)
        /\ \A i \in DOMAIN costed_requests :
               budget.budgeted_requests[i].energy_delta = costed_requests[i].energy_delta
        /\ budget.end_energy = BudgetLaw(start_energy, budget.budgeted_requests)

\* A budget with income and an expense that had to be scaled down, and one
\* that left energy over.
C2_Witness ==
    /\ budget # NoBudget
    /\ PositiveDeltas(costed_requests) > 0
    /\ NegativeDeltas(costed_requests) > start_energy + PositiveDeltas(costed_requests)
    /\ FractionOfExpenses(budget.budgeted_requests) \in 1 .. (FracOne - 1)

\* C3: every request with a negative delta gets one common fraction, the
\* nearest value to (start + income) / expense capped at 1.0, and every
\* other request gets 1.0; the fraction is in [0, 1] and is 1.0 exactly
\* when start + income >= expense; with no expense at all nothing is
\* scaled and the whole of start + income is left.
C3_CommonFraction ==
    budget # NoBudget =>
        LET income == PositiveDeltas(costed_requests)
            expense == NegativeDeltas(costed_requests)
            total == start_energy + income
        IN /\ \A i \in DOMAIN budget.budgeted_requests :
                  LET f == budget.budgeted_requests[i].budgeted_fraction
                  IN IF costed_requests[i].energy_delta < 0
                     THEN /\ f \in 0 .. FracOne
                          /\ f = FracOne <=> total >= expense
                          /\ f < FracOne => 2 * Abs(f * expense - total * FracOne) <= expense
                          /\ \A j \in DOMAIN budget.budgeted_requests :
                                 costed_requests[j].energy_delta < 0 =>
                                     budget.budgeted_requests[j].budgeted_fraction = f
                     ELSE f = FracOne
           /\ expense = 0 => budget.end_energy = total

\* A scaled-down budget that holds an expense and an income request.
C3_Witness ==
    /\ budget # NoBudget
    /\ \E i, j \in DOMAIN budget.budgeted_requests :
           /\ costed_requests[i].energy_delta < 0
           /\ budget.budgeted_requests[i].budgeted_fraction \in 1 .. (FracOne - 1)
           /\ costed_requests[j].energy_delta > 0
           /\ budget.budgeted_requests[j].budgeted_fraction = FracOne

(***************************************************************************)
(* Properties of the world (Spec).                                         *)
(***************************************************************************)
Node(graph, handle) == graph.nodes[NodeIndex(graph, handle)]

Edge(graph, handle) == graph.edges[EdgeIndex(graph, handle)]

\* The record of the last control stage for the cell with this handle.
RecordOf(handle) ==
    executed[CHOOSE k \in DOMAIN executed : executed[k].node_handle = handle]

\* The bond slot of the cell that holds this edge.
SlotOf(cell, edge_handle) == CHOOSE s \in Slots : cell.edge_handles[s] = edge_handle

\* The energy a bond holds for the cell with this handle.
SlotFor(bond, handle) ==
    (IF bond.node1_handle = handle THEN bond.energy_for_cell1 ELSE 0)
    + (IF bond.node2_handle = handle THEN bond.energy_for_cell2 ELSE 0)

Peer(bond, handle) ==
    IF bond.node1_handle = handle THEN bond.node2_handle ELSE bond.node1_handle

RECURSIVE WaitingFor(_, _, _)
\* The energy all bonds together hold for the cell with this handle.
WaitingFor(edges, handle, i) ==
    IF i > Len(edges) THEN 0
    ELSE SlotFor(edges[i], handle) + WaitingFor(edges, handle, i + 1)

RECURSIVE CellEnergy(_, _)
CellEnergy(nodes, i) ==
    IF i > Len(nodes) THEN 0 ELSE nodes[i].energy + CellEnergy(nodes, i + 1)

RECURSIVE BondEnergy(_, _)
BondEnergy(edges, i) ==
    IF i > Len(edges) THEN 0
    ELSE edges[i].energy_for_cell1 + edges[i].energy_for_cell2 + BondEnergy(edges, i + 1)

TotalEnergy(graph) == CellEnergy(graph.nodes, 1) + BondEnergy(graph.edges, 1)

\* What a cell's bond requests deposit at a slot.
DonationAt(record, slot) ==
    IF record.bond_requests[slot].retain_bond
    THEN record.bond_requests[slot].donation_energy ELSE 0

SomeLayerHealthy(layers) == \E k \in DOMAIN layers : layers[k].health > 0

\* C1: the energy of every cell is >= 0 in every state of every tick.
C1_EnergyNonNegative ==
    \A i \in DOMAIN cell_graph.nodes : cell_graph.nodes[i].energy >= 0

\* A tick has ended in which a cell asked for more than it had and was
\* left with nothing.
C1_Witness ==
    /\ pc = "idle" /\ ticks > 0
    /\ \E k \in DOMAIN executed :
           /\ FractionOfExpenses(executed[k].budgeted_requests) < FracOne
           /\ executed[k].node_handle \in NodeHandles(cell_graph)
           /\ Node(cell_graph, executed[k].node_handle).energy = 0

\* C4: right after process_cell_bond_energy both slots of every bond are
\* zero, every cell has gained exactly what the bonds held for it, and the
\* total of cell energies and bond slots is what it was before the stage.
C4_BondEnergyClaimed ==
    (pc = "controls" /\ index = 1) =>
        /\ \A j \in DOMAIN cell_graph.edges :
               /\ cell_graph.edges[j].energy_for_cell1 = 0
               /\ cell_graph.edges[j].energy_for_cell2 = 0
        /\ Len(cell_graph.nodes) = Len(stage_start.nodes)
        /\ \A i \in DOMAIN cell_graph.nodes :
               cell_graph.nodes[i].energy =
                   stage_start.nodes[i].energy
                   + WaitingFor(stage_start.edges, cell_graph.nodes[i].node_handle, 1)
        /\ TotalEnergy(cell_graph) = TotalEnergy(stage_start)

\* The stage has just emptied a bond that held energy for both of its cells.
C4_Witness ==
    /\ pc = "controls" /\ index = 1
    /\ \E j \in DOMAIN stage_start.edges :
           /\ stage_start.edges[j].energy_for_cell1 > 0
           /\ stage_start.edges[j].energy_for_cell2 > 0
           /\ cell_graph.edges[j].energy_for_cell1 = 0

\* The donation a cell deposited in the last control stage sits in its
\* bond, for the peer, when the tick has returned.
C5_DepositWaits ==
    (pc = "idle" /\ ticks > 0) =>
        \A k \in DOMAIN executed : \A s \in Slots :
            LET r == executed[k]
                h == r.edge_handles[s]
            IN (h # NoEdge /\ h \in EdgeHandles(cell_graph)) =>
                   SlotFor(Edge(cell_graph, h), Peer(Edge(cell_graph, h), r.node_handle))
                       = DonationAt(r, s)

\* A control pass changes the energy of no cell but the one it runs; the
\* claim stage gives every cell what the bonds held for it and empties them.
C5_Step ==
    /\ (pc = "controls" /\ pc' = "controls") =>
           /\ Len(cell_graph'.nodes) = Len(cell_graph.nodes)
           /\ \A i \in DOMAIN cell_graph.nodes :
                  i # index => cell_graph'.nodes[i].energy = cell_graph.nodes[i].energy
    /\ (pc = "claim" /\ pc' = "controls") =>
           /\ \A i \in DOMAIN cell_graph.nodes :
                  cell_graph'.nodes[i].energy =
                      cell_graph.nodes[i].energy
                      + WaitingFor(cell_graph.edges, cell_graph.nodes[i].node_handle, 1)
           /\ BondEnergy(cell_graph'.edges, 1) = 0

\* C5: a donation through an existing bond takes exactly one tick: a
\* deposit credits nobody while the controls run, it sits in the bond for
\* the peer when the tick returns, whichever of the two cells ran first,
\* and the claim stage of the next tick credits it.
C5_OneTickLatency == [](C5_DepositWaits) /\ [][C5_Step]_vars

\* The second tick has returned; two cells donated to each other through a
\* bond older than the tick, in both ticks: what was deposited in the first
\* tick was claimed in the second, what was deposited in the second waits.
C5_Witness ==
    /\ pc = "idle" /\ ticks = 2
    /\ \E k1, k2 \in DOMAIN executed : \E s1, s2 \in Slots :
           /\ k1 < k2
           /\ executed[k1].edge_handles[s1] # NoEdge
           /\ executed[k1].edge_handles[s1] = executed[k2].edge_handles[s2]
           /\ executed[k1].edge_handles[s1] \in EdgeHandles(cell_graph)
           /\ executed[k1].edge_handles[s1] \in EdgeHandles(tick_start)
           /\ DonationAt(executed[k1], s1) > 0
           /\ DonationAt(executed[k2], s2) > 0
           /\ LET e == Edge(tick_start, executed[k1].edge_handles[s1])
              IN e.energy_for_cell1 > 0 /\ e.energy_for_cell2 > 0

\* C6: when a tick has returned no dead cell is in the world, every cell
\* that was dead when its control ran is gone, and every cell that was
\* alive then is still there.
C6_DeadCellsRemoved ==
    (pc = "idle" /\ ticks > 0) =>
        /\ \A i \in DOMAIN cell_graph.nodes : SomeLayerHealthy(cell_graph.nodes[i].layers)
        /\ \A k \in DOMAIN executed :
               SomeLayerHealthy(executed[k].layers)
                   <=> executed[k].node_handle \in NodeHandles(cell_graph)
        /\ \A i \in DOMAIN tick_start.nodes :
               \E k \in DOMAIN executed :
                   executed[k].node_handle = tick_start.nodes[i].node_handle

\* A tick has returned that removed a dead cell and kept a living one.
C6_Witness ==
    /\ pc = "idle" /\ ticks > 0
    /\ \E k1, k2 \in DOMAIN executed :
           /\ ~SomeLayerHealthy(executed[k1].layers)
           /\ executed[k1].node_handle \notin NodeHandles(cell_graph)
           /\ SomeLayerHealthy(executed[k2].layers)
           /\ executed[k2].node_handle \in NodeHandles(cell_graph)

\* C7: in every state each bond joins two distinct cells of the world and
\* each gusset lies on two bonds of the world; right after remove_nodes no
\* bond has a removed cell as an endpoint and no gusset lies on a bond that
\* the removal took away.
C7_RemovalCascades ==
    /\ \A j \in DOMAIN cell_graph.edges :
           /\ cell_graph.edges[j].node1_handle # cell_graph.edges[j].node2_handle
           /\ cell_graph.edges[j].node1_handle \in NodeHandles(cell_graph)
           /\ cell_graph.edges[j].node2_handle \in NodeHandles(cell_graph)
    /\ \A m \in DOMAIN cell_graph.meta_edges :
           /\ cell_graph.meta_edges[m].edge1_handle \in EdgeHandles(cell_graph)
           /\ cell_graph.meta_edges[m].edge2_handle \in EdgeHandles(cell_graph)
    /\ pc \in {"tick_cells", "removed"} =>
           /\ NodeHandles(cell_graph) = NodeHandles(stage_start) \ SeqToSet(dead_cell_handles)
           /\ \A j \in DOMAIN cell_graph.edges :
                  /\ cell_graph.edges[j].node1_handle \notin SeqToSet(dead_cell_handles)
                  /\ cell_graph.edges[j].node2_handle \notin SeqToSet(dead_cell_handles)
           /\ \A m \in DOMAIN cell_graph.meta_edges :
                  /\ cell_graph.meta_edges[m].edge1_handle \notin
                         EdgeHandles(stage_start) \ EdgeHandles(cell_graph)
                  /\ cell_graph.meta_edges[m].edge2_handle \notin
                         EdgeHandles(stage_start) \ EdgeHandles(cell_graph)

\* remove_nodes has just removed a cell that held a bond with a gusset on
\* it, and the cell at the other end of the bond is still there.
C7_Witness ==
    /\ pc = "removed"
    /\ \E j \in DOMAIN stage_start.edges : \E m \in DOMAIN stage_start.meta_edges :
           /\ \/ stage_start.edges[j].node1_handle \in SeqToSet(dead_cell_handles)
              \/ stage_start.edges[j].node2_handle \in SeqToSet(dead_cell_handles)
           /\ \/ stage_start.edges[j].node1_handle \in NodeHandles(cell_graph)
              \/ stage_start.edges[j].node2_handle \in NodeHandles(cell_graph)
           /\ stage_start.edges[j].edge_handle \notin EdgeHandles(cell_graph)
           /\ \/ stage_start.meta_edges[m].edge1_handle = stage_start.edges[j].edge_handle
              \/ stage_start.meta_edges[m].edge2_handle = stage_start.edges[j].edge_handle

\* The (record, slot) pairs of the last control stage that ask for a child:
\* retain_bond set, a positive donation, and no bond at the slot.
BudSlots ==
    {ks \in (DOMAIN executed) \X Slots :
        /\ executed[ks[1]].bond_requests[ks[2]].retain_bond
        /\ executed[ks[1]].bond_requests[ks[2]].donation_energy > 0
        /\ executed[ks[1]].edge_handles[ks[2]] = NoEdge}

NewNodeHandles == NodeHandles(cell_graph) \ NodeHandles(stage_start)

NewEdgeHandles == EdgeHandles(cell_graph) \ EdgeHandles(stage_start)

\* The donation request for this slot is the only request of the record
\* that costs or yields energy.
SoleCostedDonation(record, slot) ==
    \E i \in DOMAIN record.budgeted_requests :
        /\ record.budgeted_requests[i].control_request.channel_index
               = DONATION_ENERGY_CHANNEL_INDEX
        /\ record.budgeted_requests[i].control_request.value_index = slot
        /\ \A j \in DOMAIN record.budgeted_requests :
               j # i => record.budgeted_requests[j].energy_delta = 0

\* What add_children has built for one bud slot: one new bond from the
\* parent (node1, at the slot) to one new cell (node2, at its slot 0), the
\* child without energy, the donation in the bond for the child.
BudBuilt(k, s) ==
    LET r == executed[k]
        parent == Node(cell_graph, r.node_handle)
        h == parent.edge_handles[s]
    IN /\ h \in NewEdgeHandles
       /\ LET e == Edge(cell_graph, h)
          IN /\ e.node1_handle = r.node_handle
             /\ e.node2_handle \in NewNodeHandles
             /\ Node(cell_graph, e.node2_handle).edge_handles[0] = h
             /\ \A s2 \in Slots \ {0} :
                    Node(cell_graph, e.node2_handle).edge_handles[s2] = NoEdge
             /\ Node(cell_graph, e.node2_handle).energy = 0
             /\ e.energy_for_cell2 = r.bond_requests[s].donation_energy
             /\ e.energy_for_cell1 = 0

BudsBuilt ==
    /\ Cardinality(NewNodeHandles) = Cardinality(BudSlots)
    /\ Cardinality(NewEdgeHandles) = Cardinality(BudSlots)
    /\ \A ks \in BudSlots : BudBuilt(ks[1], ks[2])
    /\ \A ks1, ks2 \in BudSlots :
           ks1 # ks2 =>
               Node(cell_graph, executed[ks1[1]].node_handle).edge_handles[ks1[2]]
                   # Node(cell_graph, executed[ks2[1]].node_handle).edge_handles[ks2[2]]

DonationScaled(record, slot) ==
    \A i \in DOMAIN record.budgeted_requests :
        LET request == record.budgeted_requests[i]
        IN (/\ request.control_request.channel_index = DONATION_ENERGY_CHANNEL_INDEX
            /\ request.control_request.value_index = slot) =>
               2 * Abs(record.bond_requests[slot].donation_energy * HealthOne * FracOne
                       - record.layers[request.control_request.layer_index + 1].health
                             * request.budgeted_fraction
                             * request.control_request.requested_value)
                   <= HealthOne * FracOne

RetainedByBoth(bond) ==
    LET u == bond.node1_handle
        v == bond.node2_handle
    IN /\ RecordOf(u).bond_requests[SlotOf(Node(tick_start, u), bond.edge_handle)].retain_bond
       /\ RecordOf(v).bond_requests[SlotOf(Node(tick_start, v), bond.edge_handle)].retain_bond

\* C9: a bond that exists when a tick begins is gone when the tick returns
\* if either of its cells did not ask to retain it at its slot; it is still
\* there only if both asked to retain it and neither was removed as dead.
C9_BondBreaking ==
    (pc = "idle" /\ ticks > 0) =>
        \A j \in DOMAIN tick_start.edges :
            LET bond == tick_start.edges[j]
            IN /\ ~RetainedByBoth(bond) => bond.edge_handle \notin EdgeHandles(cell_graph)
               /\ bond.edge_handle \in EdgeHandles(cell_graph) =>
                      /\ RetainedByBoth(bond)
                      /\ bond.node1_handle \in NodeHandles(cell_graph)
                      /\ bond.node2_handle \in NodeHandles(cell_graph)
                      /\ bond.node1_handle \notin SeqToSet(dead_cell_handles)
                      /\ bond.node2_handle \notin SeqToSet(dead_cell_handles)

\* A tick has returned that broke a bond between two cells that both live
\* on, only one of which let go of it, and that kept another bond.
C9_Witness ==
    /\ pc = "idle" /\ ticks > 0
    /\ \E j1, j2 \in DOMAIN tick_start.edges :
           LET broken == tick_start.edges[j1]
               u == broken.node1_handle
               v == broken.node2_handle
           IN /\ broken.edge_handle \notin EdgeHandles(cell_graph)
              /\ u \in NodeHandles(cell_graph)
              /\ v \in NodeHandles(cell_graph)
              /\ \/ RecordOf(u).bond_requests[
                        SlotOf(Node(tick_start, u), broken.edge_handle)].retain_bond
                 \/ RecordOf(v).bond_requests[
                        SlotOf(Node(tick_start, v), broken.edge_handle)].retain_bond
              /\ tick_start.edges[j2].edge_handle \in EdgeHandles(cell_graph)

\* C10: while the cells are iterated the graph keeps the cells and bonds the
\* tick began with; then the children are added with nothing removed yet,
\* then exactly the broken bonds are removed with every cell still there,
\* then the dead cells are removed.  The bond of every child made in the
\* tick is not among the broken bonds and is there when the tick returns.
C10_UpdateOrder ==
    /\ pc \in {"claim", "controls"} =>
           /\ NodeHandles(cell_graph) = NodeHandles(tick_start)
           /\ EdgeHandles(cell_graph) = EdgeHandles(tick_start)
    /\ pc = "remove_bonds" =>
           /\ NodeHandles(tick_start) \subseteq NodeHandles(cell_graph)
           /\ EdgeHandles(tick_start) \subseteq EdgeHandles(cell_graph)
           /\ Len(cell_graph.nodes) = Len(tick_start.nodes) + Len(new_children)
           /\ Len(cell_graph.edges) = Len(tick_start.edges) + Len(new_children)
    /\ pc = "remove_nodes" =>
           /\ NodeHandles(cell_graph) = NodeHandles(stage_start)
           /\ EdgeHandles(cell_graph) = EdgeHandles(stage_start) \ broken_bond_handles
           /\ Len(cell_graph.nodes) = Len(tick_start.nodes) + Len(new_children)
    /\ pc = "tick_cells" =>
           NodeHandles(cell_graph) = NodeHandles(stage_start) \ SeqToSet(dead_cell_handles)
    /\ pc \in {"remove_bonds", "remove_nodes", "tick_cells"} \/ (pc = "idle" /\ ticks > 0) =>
           /\ broken_bond_handles \subseteq EdgeHandles(tick_start)
           /\ Cardinality(EdgeHandles(cell_graph) \ EdgeHandles(tick_start))
                  = Len(new_children)
           /\ \A c \in DOMAIN new_children :
                  LET parent == new_children[c].parent
                      h == Node(cell_graph, parent).edge_handles[new_children[c].bond_index]
                  IN /\ parent \in NodeHandles(cell_graph)
                     /\ h \in EdgeHandles(cell_graph) \ EdgeHandles(tick_start)
                     /\ h \notin broken_bond_handles
                     /\ Edge(cell_graph, h).node1_handle = parent

\* A tick has returned in which a child was added, a bond was broken and a
\* dead cell was removed.
C10_Witness ==
    /\ pc = "idle" /\ ticks > 0
    /\ new_children # <<>>
    /\ broken_bond_handles # {}
    /\ dead_cell_handles # <<>>
    /\ \E j \in DOMAIN cell_graph.edges :
           cell_graph.edges[j].edge_handle \notin EdgeHandles(tick_start)

(***************************************************************************)
(* Per-tick inputs of a cell.                                              *)
(***************************************************************************)
\* C11: when tick() returns, every cell of the world, the cells born in the
\* tick included, has no overlap in its local environment and a zero net
\* force, although the influences gave every cell an overlap and a force.
C11_InputsCleared ==
    (pc = "idle" /\ ticks > 0) =>
        /\ \A i \in DOMAIN cell_graph.nodes :
               /\ cell_graph.nodes[i].overlaps = <<>>
               /\ cell_graph.nodes[i].net_force = ZERO_FORCE
        /\ \A i \in DOMAIN stage_start.nodes :
               /\ stage_start.nodes[i].node_handle \in NodeHandles(tick_start) =>
                      /\ stage_start.nodes[i].overlaps # <<>>
                      /\ stage_start.nodes[i].net_force # ZERO_FORCE

\* A tick has returned with a cell born in it and a cell that was there
\* before, which had an overlap and a force when tick_cells began.
C11_Witness ==
    /\ pc = "idle"
    /\ ticks > 0
    /\ \E i, j \in DOMAIN cell_graph.nodes :
           /\ cell_graph.nodes[i].node_handle \in NodeHandles(tick_start)
           /\ cell_graph.nodes[j].node_handle \notin NodeHandles(tick_start)
           /\ Node(stage_start, cell_graph.nodes[i].node_handle).net_force # ZERO_FORCE
           /\ Node(stage_start, cell_graph.nodes[i].node_handle).overlaps # <<>>

(***************************************************************************)
(* Properties of a layer on its own (SpecLayer).                           *)
(***************************************************************************)
\* C12: once a damage has taken the health of a layer to 0, no later damage,
\* after_influences or execution of a healing or resize request changes the
\* health: it stays 0 and the layer is never alive again.
C12_DeathIrreversible ==
    [][died => (layer'.health = 0 /\ ~layer_is_alive(layer'))]_vars

\* A layer that a damage has killed has been asked to heal by all that was
\* requested.
C12_Witness ==
    /\ died
    /\ layer_call.op = "execute"
    /\ layer_call.request.channel_index = HEALING_CHANNEL_INDEX
    /\ layer_call.request.requested_value > 0
    /\ layer_call.budgeted_fraction = FracOne
    /\ layer.health = 0

\* C13: a layer with the dead brain is inert.  after_influences gives no
\* energy and no force, every request is costed as free, and the execution
\* of any request leaves the layer (its area, mass and health), the bond
\* requests and the CellChanges as they were; none of these calls fails.
C13_DeadLayerInert ==
    (layer_call.op \in {"after_influences", "cost", "execute"}
         /\ layer_call.before.brain = "Dead") =>
        /\ ~layer_call.panicked
        /\ layer = layer_call.before
        /\ layer_call.op = "after_influences" =>
               (layer_call.energy = 0 /\ layer_call.force = ZERO_FORCE)
        /\ layer_call.op = "cost" => layer_call.energy_delta = 0
        /\ layer_call.op = "execute" =>
               /\ layer_call.bond_requests = NONE_BOND_REQUESTS
               /\ layer_call.changes = CellChanges_new(1)

\* after_influences has been called with light on a dead thruster that
\* holds a force.
C13_Witness ==
    /\ layer_call.op = "after_influences"
    /\ layer_call.before.brain = "Dead"
    /\ layer_call.before.specialty = "Thruster"
    /\ layer_call.before.force_x # 0
    /\ layer_call.light_intensity > 0

\* The layers of the state: the layer on its own and the layers of the cells
\* of the world.
AllLayers ==
    (IF layer = <<>> THEN {} ELSE {layer})
        \cup UNION {{cell_graph.nodes[i].layers[k] : k \in DOMAIN cell_graph.nodes[i].layers} :
                       i \in DOMAIN cell_graph.nodes}

\* C14: the health of every layer is in [0, 1]; a healing request that a
\* living layer executes raises the health by
\* min(1 - health, budgeted_fraction * requested).
C14_HealthInRange ==
    /\ \A l \in AllLayers : 0 <= l.health /\ l.health <= HealthOne
    /\ (/\ layer_call.op = "execute"
        /\ ~layer_call.panicked
        /\ layer_call.before.brain = "Living"
        /\ layer_call.request.channel_index = HEALING_CHANNEL_INDEX) =>
           layer.health - layer_call.before.health =
               Min(HealthOne - layer_call.before.health,
                   RoundDiv(layer_call.budgeted_fraction
                                * layer_call.request.requested_value, FracOne))

\* A damaged living layer has been asked to heal by more than it lacks.
C14_Witness ==
    /\ layer_call.op = "execute"
    /\ layer_call.before.brain = "Living"
    /\ layer_call.request.channel_index = HEALING_CHANNEL_INDEX
    /\ layer_call.before.health > 0
    /\ layer_call.before.health < HealthOne
    /\ RoundDiv(layer_call.budgeted_fraction * layer_call.request.requested_value, FracOne)
           > HealthOne - layer_call.before.health
    /\ layer.health = HealthOne

\* C15: the area of every layer is at least 0 and its mass is its area
\* times its density, after any resize requests.
C15_AreaAndMass ==
    \A l \in AllLayers : l.area >= 0 /\ l.mass = l.area * l.density

\* A living layer of density 2 has been asked to shrink by more than its
\* area and has shrunk.
C15_Witness ==
    /\ layer_call.op = "execute"
    /\ layer_call.request.channel_index = RESIZE_CHANNEL_INDEX
    /\ layer_call.before.brain = "Living"
    /\ layer_call.before.density = 2
    /\ layer_call.before.area > 0
    /\ layer_call.request.requested_value < -layer_call.before.area
    /\ layer.area < layer_call.before.area

(***************************************************************************)
(* Radius and mass of a cell.                                              *)
(***************************************************************************)
\* The layers of a cell have the outer radii of their areas, the radius of
\* the cell is the outer radius of its outermost layer and its mass is the
\* sum of the masses of its layers.  Radii are held as disc areas, so
\* outer_radius^2 = inner_radius^2 + area / pi reads outer = inner + area.
RECURSIVE MassOfLayers(_, _)
MassOfLayers(layers, n) ==
    IF n = 0 THEN 0 ELSE MassOfLayers(layers, n - 1) + layers[n].mass

RadiiAndMass(cell) ==
    /\ \A k \in DOMAIN cell.layers :
           cell.layers[k].outer_radius =
               (IF k = 1 THEN 0 ELSE cell.layers[k - 1].outer_radius) + cell.layers[k].area
    /\ cell.radius = cell.layers[Len(cell.layers)].outer_radius
    /\ cell.mass = MassOfLayers(cell.layers, Len(cell.layers))

\* C16: after a cell is constructed and after each execution of its control
\* requests, every layer has outer_radius^2 = inner_radius^2 + area / pi for
\* its current area, the radius of the cell is the outer radius of its
\* outermost layer and the mass of the cell is the sum of the masses of
\* its layers.
C16_RadiiAndMass ==
    /\ \A i \in DOMAIN cell_graph.nodes : RadiiAndMass(cell_graph.nodes[i])
    /\ \A i \in DOMAIN new_children : RadiiAndMass(new_children[i].child)

\* A cell of two layers has executed a resize request that changed the area
\* of its inner layer.
C16_Witness ==
    /\ pc = "idle"
    /\ ticks > 0
    /\ \E i \in DOMAIN cell_graph.nodes :
           LET cell == cell_graph.nodes[i]
           IN /\ Len(cell.layers) > 1
              /\ cell.node_handle \in NodeHandles(tick_start)
              /\ cell.layers[1].area # Node(tick_start, cell.node_handle).layers[1].area

(***************************************************************************)
(* Replay (SpecReplay).                                                    *)
(***************************************************************************)
IsSortedSeq(q) == \A i, j \in DOMAIN q : i < j => q[i] < q[j]

C18_SpawnUnmutated ==
    (spawned # <<>> /\ spawned.mutation_parameters.weight_mutation_probability = 0) =>
        /\ spawned.genome.ops = genome.ops
        /\ spawned.genome.transfer_fn = genome.transfer_fn
        /\ spawned.genome.num_nodes = genome.num_nodes

\* A genome of two connected nodes with a bias other than 0 has been
\* spawned with NO_MUTATION.
C18_Witness ==
    /\ spawned # <<>>
    /\ spawned.mutation_parameters = NO_MUTATION
    /\ Len(net_log.calls) = 2
    /\ \E i \in DOMAIN genome.ops : genome.ops[i].kind = "Bias" /\ genome.ops[i].bias # 0
    /\ spawned.genome.ops = genome.ops

RECURSIVE OpsOfCalls(_, _, _)
\* The op list that the first n calls of connect_node leave.
OpsOfCalls(calls, n, transfer_fn) ==
    IF n = 0 THEN <<>>
    ELSE LET call == calls[n]
         IN OpsOfCalls(calls, n - 1, transfer_fn)
                \o <<BiasOp(call.to_value_index, call.bias)>>
                \o [i \in DOMAIN call.from_value_weights |->
                        ConnectionOp(call.from_value_weights[i][1], call.to_value_index,
                                     call.from_value_weights[i][2])]
                \o <<TransferOp(call.to_value_index, transfer_fn)>>

RECURSIVE AccumulateInputs(_, _, _, _)
\* The value of the target of a call before its transfer: the bias plus, in
\* the order of the inputs, weight times the value of the input (the
\* target itself is read as accumulated so far).
AccumulateInputs(call, i, accumulated, values) ==
    IF i > Len(call.from_value_weights) THEN accumulated
    ELSE LET from == call.from_value_weights[i][1]
             weight == call.from_value_weights[i][2]
             from_value == IF from = call.to_value_index THEN accumulated
                           ELSE values[from + 1]
         IN AccumulateInputs(call, i + 1, accumulated + weight * from_value, values)

RECURSIVE EvaluateCalls(_, _, _, _)
\* The node values after the calls from c on have been evaluated in order,
\* each on the values the calls before it have left.
EvaluateCalls(calls, c, values, transfer_fn) ==
    IF c > Len(calls) THEN values
    ELSE EvaluateCalls(calls, c + 1,
             [values EXCEPT ![calls[c].to_value_index + 1] =
                 transfer_fn_call(transfer_fn,
                                  AccumulateInputs(calls[c], 1, calls[c].bias, values))],
             transfer_fn)

RECURSIVE WeightedSum(_, _, _)
WeightedSum(from_value_weights, i, values) ==
    IF i > Len(from_value_weights) THEN 0
    ELSE from_value_weights[i][2] * values[from_value_weights[i][1] + 1]
             + WeightedSum(from_value_weights, i + 1, values)

\* Call c reads only nodes that no call up to c has as its target, and no
\* later call has the target of c as its target.
ReadsOnlyPreviousValues(calls, c) ==
    /\ \A i \in DOMAIN calls[c].from_value_weights :
           \A d \in 1 .. c : calls[d].to_value_index # calls[c].from_value_weights[i][1]
    /\ \A d \in (c + 1) .. Len(calls) : calls[d].to_value_index # calls[c].to_value_index

RecurrentCalls ==
    <<ConnectCall(1, 0, <<<<0, 1>>, <<2, 2>>>>), ConnectCall(2, 0, <<<<1, 1>>>>)>>

\* C19: the ops of a genome are, for every connect_node call in order, a
\* Bias op, a Connection op for every input in the order given and a
\* Transfer op; a run applies them in that order on the node values, so that
\* a connection from a node whose Bias op comes later reads the value the
\* node had at the end of the previous run.  The recurrent net of two nodes
\* has the values (1, 1, 1) after its first run and (0, 2, 2) after its
\* second.
C19_OpsInInsertionOrder ==
    net_log # <<>> =>
        /\ genome.ops = OpsOfCalls(net_log.calls, Len(net_log.calls), genome.transfer_fn)
        /\ \A r \in DOMAIN net_log.runs :
               /\ net_log.runs[r].after =
                      EvaluateCalls(net_log.calls, 1, net_log.runs[r].before,
                                    genome.transfer_fn)
               /\ \A c \in DOMAIN net_log.calls :
                      ReadsOnlyPreviousValues(net_log.calls, c) =>
                          net_log.runs[r].after[net_log.calls[c].to_value_index + 1] =
                              transfer_fn_call(genome.transfer_fn,
                                  net_log.calls[c].bias
                                      + WeightedSum(net_log.calls[c].from_value_weights, 1,
                                                    net_log.runs[r].before))
        /\ (net_log.calls = RecurrentCalls /\ genome.transfer_fn = "IDENTITY") =>
               \A r \in DOMAIN net_log.runs :
                   /\ net_log.runs[r].before = <<1, 0, 0>> =>
                          net_log.runs[r].after = <<1, 1, 1>>
                   /\ net_log.runs[r].before = <<0, 1, 1>> =>
                          net_log.runs[r].after = <<0, 2, 2>>

\* The recurrent net has been run with 1 and then with 0 at node 0.
C19_Witness ==
    /\ net_log # <<>>
    /\ net_log.calls = RecurrentCalls
    /\ genome.transfer_fn = "IDENTITY"
    /\ Len(net_log.runs) = 2
    /\ net_log.runs[1].before = <<1, 0, 0>>
    /\ net_log.runs[1].after = <<1, 1, 1>>
    /\ net_log.runs[2].before = <<0, 1, 1>>
    /\ net_log.runs[2].after = <<0, 2, 2>>

(***************************************************************************)
(* Properties of bonds on their own (SpecBond).                            *)
(***************************************************************************)
\* C20: a Bond of a node with itself, an AngleGusset of a bond with itself,
\* an AngleGusset of two bonds of which the first does not end where the
\* second begins, and setting or claiming the energy of a bond for a cell
\* that is not one of its endpoints all panic: they return no value and
\* leave the bonds as they were.
C20_InvalidBondsFailHard ==
    LET invalid ==
            \/ /\ bond_call.op = "bond_new"
               /\ bond_call.handles[1] = bond_call.handles[2]
            \/ /\ bond_call.op = "gusset_new"
               /\ \/ bond_call.bonds[1] = bond_call.bonds[2]
                  \/ bond_call.before[bond_call.bonds[1]].node2_handle
                         # bond_call.before[bond_call.bonds[2]].node1_handle
            \/ /\ bond_call.op \in {"set_energy_from_cell", "claim_energy_for_cell"}
               /\ bond_call.handles[1] # bond_call.before[bond_call.bonds[1]].node1_handle
               /\ bond_call.handles[1] # bond_call.before[bond_call.bonds[1]].node2_handle
    IN invalid =>
           /\ bond_call.panicked
           /\ bond_call.value = NoValue
           /\ bench_bonds = bond_call.before

\* An AngleGusset has been asked of two different bonds that hold energy and
\* of which the first does not end where the second begins.
C20_Witness ==
    /\ bond_call.op = "gusset_new"
    /\ bond_call.bonds[1] # bond_call.bonds[2]
    /\ bench_bonds[bond_call.bonds[1]].node2_handle
           # bench_bonds[bond_call.bonds[2]].node1_handle
    /\ bench_bonds[bond_call.bonds[1]].energy_for_cell1 > 0
    /\ bond_call.panicked

(***************************************************************************)
(* Resize requests.                                                        *)
(***************************************************************************)
\* The most a layer may grow in one request: max_growth_rate * area.
MaxGrowth(l) == RoundDiv(l.resize_parameters.max_growth_rate * l.area, FracOne)

\* The most a layer may shrink in one request: max_shrinkage_rate * area.
MaxShrinkage(l) == RoundDiv(l.resize_parameters.max_shrinkage_rate * l.area, FracOne)

\* The requested delta clamped to [-MaxShrinkage, +MaxGrowth] of the layer.
RateClamped(l, requested) ==
    IF requested >= 0
    THEN IF l.resize_parameters.max_growth_rate = INFINITY THEN requested
         ELSE Min(requested, MaxGrowth(l))
    ELSE Max(requested, -MaxShrinkage(l))

\* C21: executing a resize request on a living layer changes its area by
\* exactly max(-area, health * budgeted_fraction * c), where c is the
\* requested delta clamped to the growth and shrinkage rates times the area
\* before the request; so the layer grows by at most max_growth_rate * area
\* and shrinks by at most max_shrinkage_rate * area.
C21_ResizeExecution ==
    (/\ layer_call.op = "execute"
     /\ ~layer_call.panicked
     /\ layer_call.request.channel_index = RESIZE_CHANNEL_INDEX
     /\ layer_call.before.brain = "Living")
        => LET before == layer_call.before
               c == RateClamped(before, layer_call.request.requested_value)
               delta == layer.area - before.area
           IN /\ delta = Max(-before.area,
                             RoundDiv(before.health * layer_call.budgeted_fraction * c,
                                      HealthOne * FracOne))
              /\ before.resize_parameters.max_growth_rate # INFINITY
                     => delta <= MaxGrowth(before)
              /\ -delta <= MaxShrinkage(before)

\* A healthy layer whose rates are half of its area of 4 has been asked to
\* shrink by 3 with its whole budget and has shrunk by 2.
C21_Witness ==
    /\ layer_call.op = "execute"
    /\ ~layer_call.panicked
    /\ layer_call.request.channel_index = RESIZE_CHANNEL_INDEX
    /\ layer_call.before.brain = "Living"
    /\ layer_call.before.health = HealthOne
    /\ layer_call.before.resize_parameters = LIMITED_RESIZE_PARAMETERS
    /\ layer_call.before.area = 4
    /\ layer_call.request.requested_value = -3
    /\ layer_call.budgeted_fraction = FracOne
    /\ layer.area = 2

\* C22: the cost of a resize request is the rate-clamped delta area times
\* growth_energy_delta when the request is not negative and times the
\* negated shrinkage_energy_delta when it is negative, whatever the health
\* of the layer.
C22_ResizeCost ==
    (/\ layer_call.op \in {"cost", "execute"}
     /\ ~layer_call.panicked
     /\ layer_call.request.channel_index = RESIZE_CHANNEL_INDEX
     /\ layer_call.before.brain = "Living")
        => LET before == layer_call.before
               requested == layer_call.request.requested_value
               c == RateClamped(before, requested)
           IN layer_call.energy_delta =
                  IF requested >= 0
                  THEN c * before.resize_parameters.growth_energy_delta
                  ELSE c * (-before.resize_parameters.shrinkage_energy_delta)

\* A layer of area 4 at partial health, whose rates are half of its area, was
\* asked to grow by 2 with its whole budget: the request cost the 2 units of
\* the whole clamped delta and the layer grew by 1.
C22_Witness ==
    /\ layer_call.op = "execute"
    /\ ~layer_call.panicked
    /\ layer_call.request.channel_index = RESIZE_CHANNEL_INDEX
    /\ layer_call.before.brain = "Living"
    /\ layer_call.before.health \in 1 .. (HealthOne - 1)
    /\ layer_call.before.resize_parameters = LIMITED_RESIZE_PARAMETERS
    /\ layer_call.before.area = 4
    /\ layer_call.request.requested_value = 2
    /\ layer_call.budgeted_fraction = FracOne
    /\ layer_call.energy_delta = -2
    /\ layer.area = 5

(***************************************************************************)
(* Bond energy slots (SpecBond).                                           *)
(***************************************************************************)
\* The call was made on a bond by one of its two endpoints.
ByEndpoint(call, op) ==
    /\ call.op = op
    /\ ~call.panicked
    /\ call.handles[1] \in {call.before[call.bonds[1]].node1_handle,
                            call.before[call.bonds[1]].node2_handle}

\* After a set the energy is in the slot of the opposite endpoint and the
\* setter's slot is what it was; after a claim the claimer got what its
\* slot held, its slot is zero and the other slot is what it was; the other
\* bonds are what they were.
C30_Slots ==
    LET b == bond_call.bonds[1]
        h == bond_call.handles[1]
        before == bond_call.before[b]
        after == bench_bonds[b]
        rest == \A o \in DOMAIN bench_bonds : o # b => bench_bonds[o] = bond_call.before[o]
    IN /\ ByEndpoint(bond_call, "set_energy_from_cell") =>
              /\ SlotFor(after, Peer(before, h)) = bond_call.energy
              /\ SlotFor(after, h) = SlotFor(before, h)
              /\ rest
       /\ ByEndpoint(bond_call, "claim_energy_for_cell") =>
              /\ bond_call.value = SlotFor(before, h)
              /\ SlotFor(after, h) = 0
              /\ SlotFor(after, Peer(before, h)) = SlotFor(before, Peer(before, h))
              /\ rest

\* A claim by the opposite endpoint right after a set returns what was set;
\* a claim repeated right after a claim returns zero.
C30_Step ==
    (/\ ByEndpoint(bond_call', "claim_energy_for_cell")
     /\ bond_call.op \in {"set_energy_from_cell", "claim_energy_for_cell"}
     /\ bond_call'.bonds = bond_call.bonds)
        => /\ (/\ ByEndpoint(bond_call, "set_energy_from_cell")
               /\ bond_call'.handles[1]
                      = Peer(bond_call.before[bond_call.bonds[1]], bond_call.handles[1]))
                  => bond_call'.value = bond_call.energy
           /\ (/\ ByEndpoint(bond_call, "claim_energy_for_cell")
               /\ bond_call'.handles = bond_call.handles)
                  => bond_call'.value = 0

\* C30: energy set by one endpoint of a bond is stored only in the slot of
\* the opposite endpoint, a claim by that opposite endpoint returns exactly
\* the stored value and zeros that slot, an immediately repeated claim
\* returns zero, and neither setting nor claiming changes the other slot.
C30_DepositClaimRoundTrip == [](C30_Slots) /\ [][C30_Step]_vars

\* An endpoint has claimed the energy that was waiting for it in a bond
\* that also holds energy for the other endpoint.
C30_Witness ==
    /\ ByEndpoint(bond_call, "claim_energy_for_cell")
    /\ bond_call.value > 0
    /\ SlotFor(bench_bonds[bond_call.bonds[1]], bond_call.handles[1]) = 0
    /\ SlotFor(bench_bonds[bond_call.bonds[1]],
              Peer(bench_bonds[bond_call.bonds[1]], bond_call.handles[1])) > 0

(***************************************************************************)
(* Motion of the cells (SpecMotion).                                       *)
(***************************************************************************)
\* The acceleration of one tick on one axis: net force over mass.
Acceleration(cell, axis) == RoundDiv(VelOne * cell.net_force[axis], cell.mass)

\* The cell after the integration stage against the cell before it: the
\* velocity has gained the net force over the mass, the position has gained
\* the velocity already updated; a mass that divides the force gives the
\* velocity change exactly, and with no force the cell has moved by the
\* velocity it had.
Integrated(cell, moved) ==
    \A axis \in {1, 2} :
        /\ moved.velocity[axis] = cell.velocity[axis] + Acceleration(cell, axis)
        /\ moved.position[axis] = cell.position[axis] + moved.velocity[axis]
        /\ (VelOne * cell.net_force[axis]) % cell.mass = 0
               => cell.mass * (moved.velocity[axis] - cell.velocity[axis])
                      = VelOne * cell.net_force[axis]
        /\ cell.net_force[axis] = 0
               => /\ moved.velocity[axis] = cell.velocity[axis]
                  /\ moved.position[axis] = cell.position[axis] + cell.velocity[axis]

\* C26: integration is semi-implicit with a unit step: the integration
\* stage takes a cell of mass m, velocity v, position p and net force F to
\* v' = v + F/m and p' = p + v'; with zero force the cell moves by exactly v.
C26_SemiImplicitStep ==
    [][pc = "tick_cells" =>
           /\ Len(cell_graph'.nodes) = Len(cell_graph.nodes)
           /\ \A i \in DOMAIN cell_graph.nodes :
                  Integrated(cell_graph.nodes[i], cell_graph'.nodes[i])]_vars

\* The second tick has returned: a moving cell on which no net force acted
\* has moved by its velocity, and a cell of mass above 1 that was moving
\* has been accelerated by the force on it.
C26_Witness ==
    /\ pc = "idle"
    /\ ticks = 2
    /\ Len(stage_start.nodes) = Len(cell_graph.nodes)
    /\ \E i \in DOMAIN cell_graph.nodes :
           /\ stage_start.nodes[i].net_force = ZERO_FORCE
           /\ stage_start.nodes[i].velocity[1] # 0
           /\ cell_graph.nodes[i].position[1] =
                  stage_start.nodes[i].position[1] + stage_start.nodes[i].velocity[1]
    /\ \E i \in DOMAIN cell_graph.nodes :
           /\ stage_start.nodes[i].mass > 1
           /\ stage_start.nodes[i].velocity[1] # 0
           /\ stage_start.nodes[i].net_force[1] # 0
           /\ cell_graph.nodes[i].velocity[1] # stage_start.nodes[i].velocity[1]
           /\ cell_graph.nodes[i].position[1] =
                  stage_start.nodes[i].position[1] + cell_graph.nodes[i].velocity[1]

(***************************************************************************)
(* Thrusters (SpecMotion).                                                 *)
(***************************************************************************)
RECURSIVE ThrustOf(_, _)
\* The forces stored in the thruster layers of the cell that have the
\* living brain, from layer k on.
ThrustOf(cell, k) ==
    IF k > Len(cell.layers) THEN ZERO_FORCE
    ELSE add_force(IF cell.layers[k].brain = "Living" /\ cell.layers[k].specialty = "Thruster"
                   THEN Force(cell.layers[k].force_x, cell.layers[k].force_y)
                   ELSE ZERO_FORCE,
                   ThrustOf(cell, k + 1))

\* Right after the control of a cell has run: every force requested of a
\* living thruster layer is stored in it as health * budgeted_fraction *
\* requested value, and the velocity and the forces of the cell are what
\* they were.
C23_Stored ==
    (pc = "controls" /\ index > 1) =>
        LET before == stage_start.nodes[index - 1]
            after == cell_graph.nodes[index - 1]
            requests == executed[Len(executed)].budgeted_requests
        IN /\ after.velocity = before.velocity
           /\ after.net_force = before.net_force
           /\ \A i \in DOMAIN requests :
                  LET request == requests[i].control_request
                      l == request.layer_index + 1
                      stored == RoundDiv(before.layers[l].health
                                             * requests[i].budgeted_fraction
                                             * request.requested_value,
                                         HealthOne * FracOne)
                  IN (before.layers[l].brain = "Living"
                          /\ before.layers[l].specialty = "Thruster") =>
                         /\ request.channel_index = FORCE_X_CHANNEL_INDEX
                                => after.layers[l].force_x = stored
                         /\ request.channel_index = FORCE_Y_CHANNEL_INDEX
                                => after.layers[l].force_y = stored

\* When a tick has returned, every cell that began the tick has gained the
\* velocity that the constant force of the world and the thruster forces
\* stored when the tick began give to its mass: what the control requested
\* in this tick has not moved the cell.
C23_Latency ==
    (pc = "idle" /\ ticks > 0) =>
        \A i \in DOMAIN cell_graph.nodes :
            LET cell == cell_graph.nodes[i]
            IN cell.node_handle \in NodeHandles(tick_start) =>
                   LET began == Node(tick_start, cell.node_handle)
                       force == add_force(CONSTANT_FORCE, ThrustOf(began, 1))
                   IN \A axis \in {1, 2} :
                          cell.velocity[axis] =
                              began.velocity[axis]
                                  + RoundDiv(VelOne * force[axis], cell.mass)

\* Only the control of a cell changes the forces stored in its layers.
C23_Persists ==
    \A i \in DOMAIN cell_graph.nodes :
        (/\ i \in DOMAIN cell_graph'.nodes
         /\ cell_graph'.nodes[i].node_handle = cell_graph.nodes[i].node_handle
         /\ ~(pc = "controls" /\ i = index))
            => \A k \in DOMAIN cell_graph.nodes[i].layers :
                   /\ cell_graph'.nodes[i].layers[k].force_x
                          = cell_graph.nodes[i].layers[k].force_x
                   /\ cell_graph'.nodes[i].layers[k].force_y
                          = cell_graph.nodes[i].layers[k].force_y

\* C23: thruster force has one tick of latency and then persists: a force
\* requested by the control in a tick is stored as health * budgeted_fraction
\* * requested value, does not change the velocity of the cell in that tick,
\* is added to the forces of the cell by after_influences in the next tick,
\* and stays stored until the control overwrites it; a layer with the dead
\* brain adds no force.
C23_ThrusterLatency == [](C23_Stored /\ C23_Latency) /\ [][C23_Persists]_vars

\* The second tick has returned: a thruster that began it with the force
\* stored in the first tick has accelerated its cell by more than the
\* constant force alone.
C23_Witness ==
    /\ pc = "idle"
    /\ ticks = 2
    /\ \E i \in DOMAIN cell_graph.nodes :
           LET cell == cell_graph.nodes[i]
           IN /\ cell.node_handle \in NodeHandles(tick_start)
              /\ ThrustOf(Node(tick_start, cell.node_handle), 1)[1] > 0
              /\ cell.velocity[1] - Node(tick_start, cell.node_handle).velocity[1]
                     > RoundDiv(VelOne * CONSTANT_FORCE[1], cell.mass)

(***************************************************************************)
(* Order of the stages of a tick (Spec).                                   *)
(***************************************************************************)
\* The stages of World::tick in the order in which they follow each other;
\* a stage that panics ends the tick.
StageOrder ==
    {<<"idle", "claim">>, <<"claim", "controls">>, <<"controls", "remove_bonds">>,
     <<"remove_bonds", "remove_nodes">>, <<"remove_nodes", "tick_cells">>,
     <<"tick_cells", "idle">>, <<"claim", "panicked">>, <<"controls", "panicked">>}

RECURSIVE LightIncome(_, _)
\* What the layers of the cell, from layer k on, yield to the pool in
\* after_influences under the light and the overlap of the world.
LightIncome(cell, k) ==
    IF k > Len(cell.layers) THEN 0
    ELSE layer_after_influences(cell.layers[k], sunlight,
                                <<UNIVERSAL_OVERLAP.magnitude>>).energy
         + LightIncome(cell, k + 1)

\* The stages follow each other in the order influences with
\* after_influences, bond claims, controls, update of the graph,
\* integration.
C24_Order == pc' # pc => <<pc, pc'>> \in StageOrder

\* The pool against which the requests of a cell were budgeted in this tick
\* is its energy when the tick began plus what its layers yielded in
\* after_influences plus what its bonds held for it; right after its
\* control ran, its energy is what the budget leaves of that pool.
C24_Pool ==
    (pc \in {"controls", "remove_bonds", "remove_nodes", "tick_cells"}
         \/ (pc = "idle" /\ ticks > 0)) =>
        /\ \A k \in DOMAIN executed :
               LET began == Node(tick_start, executed[k].node_handle)
               IN executed[k].energy_before =
                      began.energy + LightIncome(began, 1)
                          + WaitingFor(tick_start.edges, began.node_handle, 1)
        /\ (pc = "controls" /\ index > 1) =>
               cell_graph.nodes[index - 1].energy =
                   BudgetLaw(executed[index - 1].energy_before,
                             executed[index - 1].budgeted_requests)

\* C24: within one tick the stages run in the order influences and
\* after_influences, bond-energy claims, control, integration; the energy a
\* cell gains in a tick from photosynthesis and from bond claims is in its
\* pool when that tick's requests are budgeted and pays for that tick's
\* expenses.
C24_StageOrder == [](C24_Pool) /\ [][C24_Order]_vars

\* A cell that began the tick with no energy has had light in
\* after_influences, and its control has spent energy on a request.
C24_Witness ==
    /\ pc = "controls"
    /\ index > 1
    /\ LET began == Node(tick_start, executed[index - 1].node_handle)
           requests == executed[index - 1].budgeted_requests
       IN /\ began.energy = 0
          /\ LightIncome(began, 1) > 0
          /\ executed[index - 1].energy_before > 0
          /\ \E i \in DOMAIN requests :
                 /\ requests[i].energy_delta < 0
                 /\ requests[i].budgeted_fraction > 0
          /\ cell_graph.nodes[index - 1].energy < executed[index - 1].energy_before

(***************************************************************************)
(* Positions and velocities during a tick (Spec).                          *)
(***************************************************************************)
\* No stage but the integration changes the position or the velocity of a
\* cell that stays in the world.
C25_Step ==
    pc # "tick_cells" =>
        \A i \in DOMAIN cell_graph.nodes :
            LET cell == cell_graph.nodes[i]
            IN cell.node_handle \in NodeHandles(cell_graph') =>
                   /\ Node(cell_graph', cell.node_handle).position = cell.position
                   /\ Node(cell_graph', cell.node_handle).velocity = cell.velocity

\* Until the integration stage has run, every cell that began the tick has
\* the position and the velocity it began the tick with.
C25_Snapshot ==
    pc \in {"claim", "controls", "remove_bonds", "remove_nodes", "tick_cells", "panicked"} =>
        \A i \in DOMAIN cell_graph.nodes :
            LET cell == cell_graph.nodes[i]
            IN cell.node_handle \in NodeHandles(tick_start) =>
                   /\ cell.position = Node(tick_start, cell.node_handle).position
                   /\ cell.velocity = Node(tick_start, cell.node_handle).velocity

Bounce(v, o) == IF o > 0 THEN Max(v, o) ELSE Min(v, o)

\* The product of the floats m and s is a float: multiplying does not round.
ExactProduct(m, s) == (m * s) % FloatOne = 0 /\ is_f64((m * s) \div FloatOne)

\* The force of the walls on axis k is the one of the formula, each
\* operation rounded as f64 rounds it.
ForceOfFormula(k) ==
    LET m == force_call.input.mass
        v == force_call.input.velocity[k]
        o == force_call.input.overlap[k]
    IN force_call.force[k] =
           IF o = 0 THEN 0 ELSE f64_round(-m * f64_round(v + Bounce(v, o), 1), FloatOne)

\* C28 as amended: the wall collision force on an axis is -m*(v + max(v, o))
\* for o > 0, -m*(v + min(v, o)) for o < 0 and 0 for o = 0, in f64; alone
\* for a unit step it leaves the velocity unchanged where o = 0, and where
\* the sum and its product with m are not rounded it leaves the velocity
\* -max(v, o), respectively -min(v, o): away from the wall, at least |o|.
C28_CollisionForce ==
    force_call.op = "collision_force" =>
        \A k \in 1 .. 2 :
            LET m == force_call.input.mass
                v == force_call.input.velocity[k]
                o == force_call.input.overlap[k]
                after == force_call.velocity[k]
            IN /\ ForceOfFormula(k)
               /\ o = 0 => after = v
               /\ (o # 0 /\ is_f64(v + Bounce(v, o)) /\ ExactProduct(m, v + Bounce(v, o))) =>
                      /\ after = -Bounce(v, o)
                      /\ after * o < 0
                      /\ Abs(after) >= Abs(o)

\* C28 witness: the body of the repository's test, of mass 2 with the
\* velocity (3, 4) and the overlap (2, 3), has got the force (-12, -16) and
\* would leave with the velocity (-3, -4).
C28_Witness ==
    /\ force_call.op = "collision_force"
    /\ force_call.input.mass = 2 * FloatOne
    /\ force_call.input.velocity = <<3 * FloatOne, 4 * FloatOne>>
    /\ force_call.input.overlap = <<2 * FloatOne, 3 * FloatOne>>
    /\ force_call.force = <<-12 * FloatOne, -16 * FloatOne>>
    /\ force_call.velocity = <<-3 * FloatOne, -4 * FloatOne>>

\* C28 as stated: with the force of the formula, the velocity after the
\* step is -max(v, o), respectively -min(v, o), whatever the floats are.
C28_AsStated ==
    force_call.op = "collision_force" =>
        \A k \in 1 .. 2 :
            LET v == force_call.input.velocity[k]
                o == force_call.input.overlap[k]
                after == force_call.velocity[k]
            IN /\ ForceOfFormula(k)
               /\ o = 0 => after = v
               /\ o # 0 => after = -Bounce(v, o) /\ after * o < 0 /\ Abs(after) >= Abs(o)

(***************************************************************************)
(* The drag (SpecForces).                                                  *)
(***************************************************************************)
\* The drag on axis k is opposite to the velocity, and its magnitude is the
\* lesser of viscosity * radius * v^2 and mass * |v| / duration, each
\* operation rounded as f64 rounds it.
DragOfFormula(k) ==
    LET input == force_call.input
        v == input.velocity[k]
        instantaneous == f64_round(f64_round(input.viscosity * input.radius, FloatOne)
                                       * f64_round(v * v, FloatOne), FloatOne)
        stopping == f64_round(f64_round(input.mass * Abs(v), FloatOne) * FloatOne, FloatOne)
    IN /\ force_call.force[k] * v <= 0
       /\ Abs(force_call.force[k]) = Min(instantaneous, stopping)

\* C27: the drag on an axis is opposite to the velocity with the magnitude
\* min(viscosity * radius * v^2, mass * |v| / duration), and after a step
\* in which it is the only force the velocity on the axis is zero or has
\* the sign it had.
C27_DragNeverReverses ==
    force_call.op = "calc_drag" =>
        \A k \in 1 .. 2 :
            /\ DragOfFormula(k)
            /\ \/ force_call.velocity[k] = 0
               \/ force_call.velocity[k] * force_call.input.velocity[k] > 0

(***************************************************************************)
(* The strains of the bonds (SpecForces).                                  *)
(***************************************************************************)
RECURSIVE SumOfForces(_, _)
\* The exact sum of the forces of the strains from the i-th on.
SumOfForces(strains, i) ==
    IF i > Len(strains) THEN <<0, 0>>
    ELSE LET force == to_force(strains[i][2])
             rest == SumOfForces(strains, i + 1)
         IN <<force[1] + rest[1], force[2] + rest[2]>>

\* C29: for every bond the strain reported for node2 is the negation of the
\* strain reported for node1, and it is the zero vector when the two centres
\* coincide; the forces that calc_bond_forces adds to the cells sum to zero,
\* and with one bond the two cells get opposite net forces.
C29_EqualAndOpposite ==
    /\ force_call.op = "calc_bond_strains" =>
           /\ Len(force_call.strains) = Len(force_call.input.bonds)
           /\ \A i \in DOMAIN force_call.strains :
                  LET bond == force_call.input.bonds[i]
                      circles == force_call.input.circles
                      strain1 == force_call.strains[i][1]
                      strain2 == force_call.strains[i][2]
                  IN /\ strain1[1] = bond[1]
                     /\ strain2[1] = bond[2]
                     /\ strain2[2][1] = -strain1[2][1]
                     /\ strain2[2][2] = -strain1[2][2]
                     /\ circles[bond[1]].center = circles[bond[2]].center =>
                            strain1[2] = <<0, 0>> /\ strain2[2] = <<0, 0>>
    /\ force_call.op = "calc_bond_forces" =>
           /\ Len(force_call.strains) = 2 * Len(force_call.input.bonds)
           /\ SumOfForces(force_call.strains, 1) = <<0, 0>>
           /\ Len(force_call.input.bonds) = 1 =>
                  /\ force_call.net_forces[1] = force_call.strains[1][2]
                  /\ force_call.net_forces[2] = neg(force_call.net_forces[1])

\* C29 witness: the circles of the repository's test, of radius 2 at (0, 0)
\* and of radius 3 at (6, 8), have the strains (3, 4) and (-3, -4).
C29_Witness ==
    /\ force_call.op = "calc_bond_strains"
    /\ Len(force_call.input.circles) = 2
    /\ force_call.input.circles[1].center = <<0, 0>>
    /\ force_call.input.circles[2].center = <<6 * FloatOne, 8 * FloatOne>>
    /\ force_call.strains[1] = <<<<1, <<3 * FloatOne, 4 * FloatOne>>>>,
                                 <<2, <<-3 * FloatOne, -4 * FloatOne>>>>>>

(***************************************************************************)
(* Feed-forward genomes (SpecGenome).                                      *)
(***************************************************************************)
\* The nodes that some connect_node call has as its target.
Targets(calls) == {calls[c].to_value_index : c \in DOMAIN calls}

\* Every connection reads a node that is no target or that is the target
\* of an earlier call.
FeedForward(calls) ==
    \A c \in DOMAIN calls :
        \A i \in DOMAIN calls[c].from_value_weights :
            LET from == calls[c].from_value_weights[i][1]
            IN \/ from \notin Targets(calls)
               \/ \E d \in 1 .. (c - 1) : calls[d].to_value_index = from

\* The node values with the values of the targets replaced by left.
WithTargets(node_values, calls, left) ==
    [i \in DOMAIN node_values |-> IF (i - 1) \in Targets(calls) THEN left[i - 1]
                                  ELSE node_values[i]]

\* C31: a run of a feed-forward genome computes every target from its bias,
\* so that what it leaves depends on the values of the inputs only:
\* whatever values the targets had before the run the result is the same,
\* and running again on what a run has left changes nothing.
C31_FeedForwardRun ==
    (net_log # <<>> /\ FeedForward(net_log.calls)) =>
        \A r \in DOMAIN net_log.runs :
            LET before == net_log.runs[r].before
                after == net_log.runs[r].after
            IN /\ \A left \in [Targets(net_log.calls) -> {-1, 0, 1, 2}] :
                      genome_run(genome, WithTargets(before, net_log.calls, left)) = after
               /\ genome_run(genome, after) = after
               /\ \A i \in DOMAIN before : (i - 1) \notin Targets(net_log.calls) =>
                      after[i] = before[i]

\* C31 witness: a feed-forward net of two connected nodes has been run twice
\* with different inputs; the first run left values other than 0 at both
\* targets and the second run left other values there.
C31_Witness ==
    /\ net_log # <<>>
    /\ Len(net_log.calls) = 2
    /\ FeedForward(net_log.calls)
    /\ Cardinality(Targets(net_log.calls)) = 2
    /\ Len(net_log.runs) = 2
    /\ \A t \in Targets(net_log.calls) :
           /\ net_log.runs[1].after[t + 1] # 0
           /\ net_log.runs[2].after[t + 1] # net_log.runs[1].after[t + 1]

(***************************************************************************)
(* The generators of spawned controls (SpecControls).                      *)
(***************************************************************************)
\* The numbers drawn from the generator of a parent during a spawn.
DrawnInSpawn(c) ==
    {Append(c.parent_before.rng.seed, n) :
        n \in c.parent_before.rng.drawn .. (c.parent_after.rng.drawn - 1)}

\* C32: the generator of a spawned control is seeded with a number drawn
\* from the generator of its parent, so that the control and its parent,
\* and two controls spawned from the same parent, do not go on from the
\* same state of the generator.
C32_ChildSeededFromParent ==
    \A i \in DOMAIN controls :
        controls[i].parent # 0 =>
            /\ controls[i].made_with.rng.drawn = 0
            /\ controls[i].made_with.rng.seed \in DrawnInSpawn(controls[i])
            /\ controls[i].made_with.rng # controls[i].parent_after.rng
            /\ \A j \in DOMAIN controls :
                   (j # i /\ controls[j].parent = controls[i].parent) =>
                       controls[j].made_with.rng # controls[i].made_with.rng

\* The control and its parent go on from the same state of the generator.
C32_SameState ==
    \E i \in DOMAIN controls :
        /\ controls[i].parent # 0
        /\ controls[i].made_with.rng = controls[i].parent_after.rng
        /\ controls[i].parent_after.rng.drawn > controls[i].parent_before.rng.drawn

(***************************************************************************)
(* The shape of the WorldChanges of a tick (Spec).                         *)
(***************************************************************************)
\* The requests of the control of a cell that a living layer executes by
\* writing into its entry of the CellChanges.
RecordedRequests(cell) ==
    {j \in DOMAIN cell.control :
        /\ cell.control[j].channel_index \in {HEALING_CHANNEL_INDEX, RESIZE_CHANNEL_INDEX}
        /\ cell.layers[cell.control[j].layer_index + 1].brain = "Living"}

\* C33: while the cells of a tick are influenced and controlled, the
\* CellChanges of every cell has as many layer entries as the cell has
\* layers, and every healing or resize request of the cell whose control
\* runs next is on a layer that has an entry.
C33_ChangesShape ==
    /\ pc \in {"claim", "controls"} =>
           \A i \in DOMAIN cell_graph.nodes :
               changes_layers = Len(cell_graph.nodes[i].layers)
    /\ (pc = "controls" /\ index \in DOMAIN cell_graph.nodes) =>
           \A j \in RecordedRequests(cell_graph.nodes[index]) :
               cell_graph.nodes[index].control[j].layer_index < changes_layers

\* The tick has failed in the control of a cell of two layers whose resize
\* request on the second layer has no entry, the first cell of the world
\* having one layer.
C33_MissingEntry ==
    /\ pc = "panicked"
    /\ ~process_cell_bond_energy(cell_graph).panicked
    /\ index \in DOMAIN cell_graph.nodes
    /\ Len(cell_graph.nodes[1].layers) = 1
    /\ Len(cell_graph.nodes[index].layers) = 2
    /\ \E j \in RecordedRequests(cell_graph.nodes[index]) :
           /\ cell_graph.nodes[index].control[j].channel_index = RESIZE_CHANNEL_INDEX
           /\ cell_graph.nodes[index].control[j].layer_index = 1
           /\ changes_layers = 1
    /\ run_control(cell_graph.nodes[index], changes_layers).panicked
    /\ ~run_control(cell_graph.nodes[index], 2).panicked

(***************************************************************************)
(* The bond slots of the cells (SpecBuilt).                                *)
(***************************************************************************)
\* The bond slots of the cell that hold this edge handle.
SlotsHolding(cell, edge_handle) ==
    {slot \in Slots : cell.edge_handles[slot] = edge_handle}

\* Every bond is held by exactly one slot of each of its two endpoints.
EveryBondInItsSlots(graph) ==
    \A i \in DOMAIN graph.edges :
        LET bond == graph.edges[i]
        IN /\ bond.node1_handle \in NodeHandles(graph)
           /\ bond.node2_handle \in NodeHandles(graph)
           /\ Cardinality(SlotsHolding(Node(graph, bond.node1_handle),
                                       bond.edge_handle)) = 1
           /\ Cardinality(SlotsHolding(Node(graph, bond.node2_handle),
                                       bond.edge_handle)) = 1

\* Every slot that is not empty holds a bond of the graph that has the cell
\* as an endpoint.
EverySlotHoldsABond(graph) ==
    \A i \in DOMAIN graph.nodes : \A slot \in Slots :
        LET cell == graph.nodes[i]
            handle == cell.edge_handles[slot]
        IN handle # NoEdge =>
             /\ handle \in EdgeHandles(graph)
             /\ cell.node_handle \in {Edge(graph, handle).node1_handle,
                                      Edge(graph, handle).node2_handle}

\* C34: after the builder's with_bonds and after every tick, every bond is
\* held by exactly one bond slot of each of its two endpoint cells, and
\* every bond slot that is not empty holds a bond of the graph that has the
\* cell as an endpoint.
C34_BondSlotsConsistent ==
    pc = "idle" =>
        /\ EveryBondInItsSlots(cell_graph)
        /\ EverySlotHoldsABond(cell_graph)

\* A second bond of the builder has taken the slot of the first: the first
\* bond is in the graph and its first cell holds it in no slot.
C34_SlotOverwritten ==
    /\ pc = "idle"
    /\ \E i \in DOMAIN cell_graph.edges :
         SlotsHolding(Node(cell_graph, cell_graph.edges[i].node1_handle),
                      cell_graph.edges[i].edge_handle) = {}

\* The part that holds: a tick keeps the slots consistent whenever they
\* were consistent when the tick began.
C34_TicksKeepConsistency ==
    (/\ pc = "idle"
     /\ EveryBondInItsSlots(tick_start)
     /\ EverySlotHoldsABond(tick_start))
    => (EveryBondInItsSlots(cell_graph) /\ EverySlotHoldsABond(cell_graph))

(***************************************************************************)
(* The donation and its cost (SpecLayer).                                  *)
(***************************************************************************)
\* The last call executed a donation request on a bonding layer.
DonationExecuted ==
    /\ layer_call.op = "execute"
    /\ ~layer_call.panicked
    /\ layer_call.before.specialty = "Bonding"
    /\ layer_call.request.channel_index = DONATION_ENERGY_CHANNEL_INDEX

\* The energy the request placed in its bond slot.
DonationPlaced == layer_call.bond_requests[layer_call.request.value_index].donation_energy

\* The energy the budget takes from the cell for the request: the cost the
\* layer gave, scaled by the budgeted fraction.
DonationDebited == RoundDiv(-layer_call.energy_delta * layer_call.budgeted_fraction, FracOne)

\* C35 (amended): the energy a donation request places in its bond slot is
\* never more than the energy debited for the request; it is the nearest
\* value to health times the debit when the layer is alive, so the two are
\* equal when the health is 1, and also when the debit is 0 whatever the
\* health is.
C35_DonationWithinDebit ==
    DonationExecuted =>
        /\ DonationPlaced <= DonationDebited
        /\ layer_call.before.health = HealthOne => DonationPlaced = DonationDebited
        /\ DonationDebited = 0 => DonationPlaced = 0
        /\ layer_call.before.brain = "Living" =>
               2 * Abs(DonationPlaced * HealthOne * FracOne
                       - layer_call.before.health * layer_call.budgeted_fraction
                             * layer_call.request.requested_value)
                   <= HealthOne * FracOne

\* A layer in reduced health has placed a part of what the donation is
\* debited.
C35_Witness ==
    /\ DonationExecuted
    /\ layer_call.before.health \in 1 .. (HealthOne - 1)
    /\ DonationPlaced > 0
    /\ DonationPlaced < DonationDebited

\* C35 as stated: the energy placed is never more than the energy debited,
\* and the two are equal exactly when the health of the layer is 1.
C35_AsStated ==
    DonationExecuted =>
        /\ DonationPlaced <= DonationDebited
        /\ DonationPlaced = DonationDebited <=> layer_call.before.health = HealthOne

\* A layer in less than full health has executed a donation request that
\* cost nothing after budgeting: nothing is placed and nothing debited.
C35_NothingMoved ==
    /\ DonationExecuted
    /\ layer_call.before.health < HealthOne
    /\ DonationDebited = 0
    /\ DonationPlaced = 0

(***************************************************************************)
(* What becomes of a deposit (Spec).                                       *)
(***************************************************************************)
\* The cell of the record deposited energy at the slot, into a bond it had.
Deposited(record, slot) ==
    /\ record.edge_handles[slot] # NoEdge
    /\ DonationAt(record, slot) > 0

\* The deposit of the record at the slot is in the bond for the other cell.
StillInSlot(record, slot) ==
    LET h == record.edge_handles[slot]
    IN /\ h \in EdgeHandles(cell_graph)
       /\ SlotFor(Edge(cell_graph, h), Peer(Edge(cell_graph, h), record.node_handle))
              = DonationAt(record, slot)

\* The other cell of the bond has the energy its own control left it and the
\* deposit on top.
AddedToPeer(record, slot) ==
    LET peer == Peer(Edge(tick_start, record.edge_handles[slot]), record.node_handle)
    IN /\ peer \in NodeHandles(cell_graph)
       /\ Node(cell_graph, peer).energy
              = BudgetLaw(RecordOf(peer).energy_before, RecordOf(peer).budgeted_requests)
                + DonationAt(record, slot)

\* C36: when the tick has returned, the energy a cell deposited into a bond
\* during the tick is in the bond's slot for the other cell or has been
\* added to the other cell's energy, also when the bond was marked broken
\* in the tick of the deposit.
C36_DepositNeverDiscarded ==
    (pc = "idle" /\ ticks > 0) =>
        \A k \in DOMAIN executed : \A s \in Slots :
            Deposited(executed[k], s) =>
                StillInSlot(executed[k], s) \/ AddedToPeer(executed[k], s)

\* A cell deposited into a bond that the other cell, which lives on, did not
\* retain: the tick has returned, the bond is gone, and the other cell has
\* what its own control left it.
C36_DepositDiscarded ==
    /\ pc = "idle" /\ ticks > 0
    /\ \E k \in DOMAIN executed : \E s \in Slots :
           LET r == executed[k]
               h == r.edge_handles[s]
               peer == Peer(Edge(tick_start, h), r.node_handle)
           IN /\ Deposited(r, s)
              /\ h \notin EdgeHandles(cell_graph)
              /\ peer \in NodeHandles(cell_graph)
              /\ Node(cell_graph, peer).energy
                     = BudgetLaw(RecordOf(peer).energy_before,
                                 RecordOf(peer).budgeted_requests)

\* The part that holds: a deposit into a bond that is in the graph when the
\* tick has returned is in the bond's slot for the other cell.
C36_KeptWhileBonded ==
    (pc = "idle" /\ ticks > 0) =>
        \A k \in DOMAIN executed : \A s \in Slots :
            (/\ Deposited(executed[k], s)
             /\ executed[k].edge_handles[s] \in EdgeHandles(cell_graph))
                => StillInSlot(executed[k], s)

(***************************************************************************)
(* Health 0 and the dead brain (SpecLayer).                                *)
(***************************************************************************)
\* The layer is not alive exactly when it has the dead brain.
DeadBrainIffNotAlive(l) == ~layer_is_alive(l) <=> l.brain = "Dead"

\* The last call gave a healing or resize request to a layer of health 0.
AskedAtHealthZero ==
    /\ layer_call.op = "execute"
    /\ ~layer_call.panicked
    /\ layer_call.before.health = 0
    /\ layer_call.request.channel_index \in {HEALING_CHANNEL_INDEX, RESIZE_CHANNEL_INDEX}

\* C37: every layer, also one built with with_health or dead(), is not
\* alive (health 0) exactly when it has the dead brain, and a layer of
\* health 0 that is given a healing or resize request is left as it was,
\* with nothing recorded in the changes.
C37_HealthZeroIsDead ==
    /\ DeadBrainIffNotAlive(layer)
    /\ AskedAtHealthZero =>
           /\ layer = layer_call.before
           /\ layer_call.changes = CellChanges_new(1)

\* A layer built with with_health(0.0) has the living brain; it was given a
\* healing request and is alive again.
C37_HealedFromZero ==
    /\ AskedAtHealthZero
    /\ layer_call.before.brain = "Living"
    /\ layer_call.request.channel_index = HEALING_CHANNEL_INDEX
    /\ layer.health > 0

\* The part that holds: no call on a layer that has the dead brain exactly
\* when it is not alive makes a layer that has not.
C37_KeptByEveryCall ==
    [][DeadBrainIffNotAlive(layer) => DeadBrainIffNotAlive(layer')]_vars

(***************************************************************************)
(* What a spawn may change (SpecGenome).                                   *)
(***************************************************************************)
\* The coefficient of an op that has one.
Coefficient(op) == IF op.kind = "Bias" THEN op.bias ELSE op.weight

\* The op is the parent's op but for its coefficient.
SameButCoefficient(child, parent) ==
    /\ child.kind = parent.kind
    /\ parent.kind = "Bias" => child.value_index = parent.value_index
    /\ parent.kind = "Connection" =>
           /\ child.from_value_index = parent.from_value_index
           /\ child.to_value_index = parent.to_value_index
    /\ parent.kind = "Transfer" => child = parent

\* C38: a spawned genome has as many ops as its parent, of the same kinds in
\* the same order with the same value indices, the same transfer function
\* and the same num_nodes; only the coefficients of Bias and Connection ops
\* may differ, and a coefficient of 0 stays 0.
C38_OnlyCoefficientsChange ==
    spawned # <<>> =>
        /\ Len(spawned.genome.ops) = Len(genome.ops)
        /\ \A i \in DOMAIN genome.ops :
               /\ SameButCoefficient(spawned.genome.ops[i], genome.ops[i])
               /\ (genome.ops[i].kind # "Transfer" /\ Coefficient(genome.ops[i]) = 0) =>
                      Coefficient(spawned.genome.ops[i]) = 0
        /\ spawned.genome.transfer_fn = genome.transfer_fn
        /\ spawned.genome.num_nodes = genome.num_nodes

\* A genome with a bias of 0 and a weight other than 0 has been spawned with
\* every weight mutated: the weight has changed, the bias is 0.
C38_Witness ==
    /\ spawned # <<>>
    /\ spawned.mutation_parameters = ALWAYS_MUTATED
    /\ \E i, j \in DOMAIN genome.ops :
           /\ genome.ops[i].kind = "Bias"
           /\ genome.ops[i].bias = 0
           /\ spawned.genome.ops[i].bias = 0
           /\ genome.ops[j].kind = "Connection"
           /\ spawned.genome.ops[j].weight # genome.ops[j].weight

(***************************************************************************)
(* Bonds marked broken more than once (Spec).                              *)
(***************************************************************************)
\* The cells of the last control stage that did not retain the bond at the
\* slot that held it.
MarkedBy(edge_handle) ==
    {k \in DOMAIN executed :
        \E s \in Slots : /\ executed[k].edge_handles[s] = edge_handle
                         /\ ~executed[k].bond_requests[s].retain_bond}

\* The bond was marked broken by both of its cells, or by one while a cell
\* of the bond was found dead.
MarkedMoreThanOnce(bond) ==
    /\ MarkedBy(bond.edge_handle) # {}
    /\ \/ Cardinality(MarkedBy(bond.edge_handle)) = 2
       \/ bond.node1_handle \in SeqToSet(dead_cell_handles)
       \/ bond.node2_handle \in SeqToSet(dead_cell_handles)

\* The elements of the sequence whose handle is not in the set, in order.
Without(elements, handle_of(_), handles) ==
    SelectSeq(elements, LAMBDA e : handle_of(e) \notin handles)

EdgeHandleOf(bond) == bond.edge_handle

NodeHandleOf(cell) == cell.node_handle

\* Every marked bond is in the set of broken bonds, once as of any set, and
\* when the tick has returned the bonds and cells the tick began with are
\* there but for the broken bonds and the dead cells.
C39_Removed ==
    /\ (pc = "controls" /\ index > Len(cell_graph.nodes)) =>
           \A j \in DOMAIN cell_graph.edges :
               MarkedMoreThanOnce(cell_graph.edges[j]) =>
                   /\ cell_graph.edges[j].edge_handle \in broken_bond_handles
                   /\ \A iteration \in Orders(broken_bond_handles) :
                          Cardinality({i \in DOMAIN sort_unstable(iteration) :
                                          sort_unstable(iteration)[i]
                                              = cell_graph.edges[j].edge_handle}) = 1
    /\ (pc = "idle" /\ ticks > 0) =>
           /\ EdgeHandles(tick_start) \cap EdgeHandles(cell_graph)
                  = EdgeHandles(tick_start) \ broken_bond_handles
           /\ NodeHandles(tick_start) \cap NodeHandles(cell_graph)
                  = NodeHandles(tick_start) \ SeqToSet(dead_cell_handles)
           /\ [i \in DOMAIN Without(tick_start.edges, EdgeHandleOf, broken_bond_handles) |->
                  Without(tick_start.edges, EdgeHandleOf, broken_bond_handles)[i].edge_handle]
                  = [i \in DOMAIN Without(tick_start.edges, EdgeHandleOf, broken_bond_handles) |->
                        cell_graph.edges[i].edge_handle]

\* The removal of the broken bonds removes exactly the broken bonds and no
\* cell, the removal of the dead cells exactly the dead cells and no bond
\* that is left, and no stage after the controls fails.
C39_Stages ==
    /\ (pc = "remove_bonds" /\ pc' = "remove_nodes") =>
           /\ broken_bond_handles \subseteq EdgeHandles(cell_graph)
           /\ EdgeHandles(cell_graph') = EdgeHandles(cell_graph) \ broken_bond_handles
           /\ NodeHandles(cell_graph') = NodeHandles(cell_graph)
    /\ (pc = "remove_nodes" /\ pc' = "tick_cells") =>
           /\ SeqToSet(dead_cell_handles) \subseteq NodeHandles(cell_graph)
           /\ NodeHandles(cell_graph') = NodeHandles(cell_graph) \ SeqToSet(dead_cell_handles)
           /\ EdgeHandles(cell_graph') = EdgeHandles(cell_graph)
    /\ (\/ pc = "controls" /\ index > Len(cell_graph.nodes)
        \/ pc \in {"remove_bonds", "remove_nodes", "tick_cells"}) => pc' # "panicked"

\* C39: a bond that both of its cells mark as broken in a tick, or that is
\* marked while one of its cells is removed as dead in the tick, is among
\* the broken bonds once and is removed by the removal of the broken bonds
\* alone; the stages after the controls do not fail, and every bond that is
\* not broken and every cell that is not dead is left in place.
C39_BrokenOnce == [](C39_Removed) /\ [][C39_Stages]_vars

\* A tick has returned in which a bond was let go by both of its cells, both
\* of which live on, and another bond was kept.
C39_Witness ==
    /\ pc = "idle" /\ ticks > 0
    /\ \E j1, j2 \in DOMAIN tick_start.edges :
           /\ Cardinality(MarkedBy(tick_start.edges[j1].edge_handle)) = 2
           /\ tick_start.edges[j1].node1_handle \in NodeHandles(cell_graph)
           /\ tick_start.edges[j1].node2_handle \in NodeHandles(cell_graph)
           /\ tick_start.edges[j1].edge_handle \notin EdgeHandles(cell_graph)
           /\ tick_start.edges[j2].edge_handle \in EdgeHandles(cell_graph)

\* A tick has returned in which a bond was let go by a cell while a cell of
\* the bond was removed as dead: the bond and the dead cell are gone, the
\* other cell is there.
C39_MarkedAndDead ==
    /\ pc = "idle" /\ ticks > 0
    /\ \E j \in DOMAIN tick_start.edges :
           LET bond == tick_start.edges[j]
           IN /\ MarkedBy(bond.edge_handle) # {}
              /\ bond.node1_handle \in SeqToSet(dead_cell_handles)
              /\ bond.node2_handle \in NodeHandles(cell_graph)
              /\ bond.edge_handle \notin EdgeHandles(cell_graph)

(***************************************************************************)
(* Recorded and direct changes of a layer (SpecChanges).                   *)
(***************************************************************************)
\* The layer the tick began with, with the recorded changes applied.
Applied == f64_apply_changes(layer_call.before, layer_call.changes)

Reproduced ==
    /\ Applied.health = layer.health
    /\ Applied.area = layer.area
    /\ Applied.mass = layer.mass

\* C40 (amended): after the first healing or resize request that a layer
\* executes in a tick, the recorded deltas are the change of its health and
\* of its area, and apply_changes on the layer the tick began with gives the
\* health, area and mass of the layer.
C40_FirstRequestReproduced ==
    (layer_call.op = "execute" /\ layer_calls = 1) =>
        /\ Reproduced
        /\ f64_add(layer_call.before.health, layer_call.changes.health) = layer.health
        /\ f64_add(layer_call.before.area, layer_call.changes.area) = layer.area

\* A layer has grown by its first request of the tick.
C40_Witness ==
    /\ layer_call.op = "execute"
    /\ layer_calls = 1
    /\ layer_call.changes.area > 0
    /\ layer.area > layer_call.before.area
    /\ layer.mass > layer_call.before.mass

\* C40 as stated: after every healing or resize request that a layer
\* executes, apply_changes on the layer the tick began with, with the deltas
\* recorded so far, gives the health, area and mass of the layer.
C40_AsStated == layer_call.op = "execute" => Reproduced

\* Two requests have healed a layer by less than the recorded deltas give.
C40_SumsDiffer ==
    /\ layer_call.op = "execute"
    /\ layer_calls = 2
    /\ layer_call.changes.area = 0
    /\ Applied.health # layer.health

====
